---- MODULE Spec2Model ----
(***************************************************************************)
(* Model of the negation annotator (src/modules/detectNegation.py) and of  *)
(* the evaluator (src/modules/evaluation.py).                              *)
(*                                                                         *)
(* Words are sequences of one-character strings so that Python's slices    *)
(* (t_word[:2], t_word[-3:], t_word[-5:-1]) can be computed as the code    *)
(* computes them.  One sentence is annotated per behaviour: the sentences  *)
(* of a file are independent of each other (every helper of                *)
(* detect_negation reads and writes the current `sentence` only).          *)
(***************************************************************************)
EXTENDS Integers, Sequences, FiniteSets, TLC

----------------------------------------------------------------------------
(* Python string primitives *)

Min(a, b) == IF a < b THEN a ELSE b
Max(a, b) == IF a > b THEN a ELSE b

\* w[:k]
Prefix(w, k) == SubSeq(w, 1, Min(k, Len(w)))
\* w[k:]
DropPrefix(w, k) == SubSeq(w, Min(k, Len(w)) + 1, Len(w))
\* w[-k:]  (k > 0)
Suffix(w, k) == SubSeq(w, Max(Len(w) - k, 0) + 1, Len(w))
\* w[:-k]  (k > 0)
DropSuffix(w, k) == SubSeq(w, 1, Max(Len(w) - k, 0))
\* w[-a:-b]  (a > b > 0)
Slice(w, a, b) == SubSeq(w, Max(Len(w) - a, 0) + 1, Max(Len(w) - b, 0))

\* str.lower() on the characters the vocabulary uses
LowerChar(c) ==
    CASE c = "N" -> "n"
      [] c = "U" -> "u"
      [] c = "K" -> "k"
      [] c = "Z" -> "z"
      [] OTHER -> c
Lower(w) == [k \in 1..Len(w) |-> LowerChar(w[k])]

----------------------------------------------------------------------------
(* Rule settings, detectNegation.py lines 53-93 *)

NEGATION_FRAME_NAME == "Negation"
UN_AUS_RULES_POS_TAGS == {"ADJA", "ADJD", "NN", "VVFIN", "VVPP", "VVINF"}
FOCUS_LEMMA_RULES == {"VMFIN", "VVFIN", "VVPP"}
SCOPE_START_FENODE == {"$*LRB*", "$,", "KON", "KOUS"}
SCOPE_END_FENODE == {"$.", "$*LRB*"}
\* the lemmas of SCOPE_END_LEMMA: the en dash (one character, written "--"
\* here) and 'und'
L_dash == <<"--">>
L_und == <<"u", "n", "d">>
SCOPE_END_LEMMA == {L_dash, L_und}
\* `pos in SCOPE_BREAKING_FENODE[0]` is a substring test on the string '$,'
SCOPE_BREAKING_FENODE_0 == {"", "$", ",", "$,"}
SCOPE_CONTINUE_FENODE == {"KOUS", "ADV", "ART", "KOKOM", "APPR"}
NICHT_RULES == {"PIS", "VVPP", "ADJD", "ADV", "PPER", "VVINF", "ADJ", "ADJA", "VMFIN", "PPOSAT"}
NICHT_PREV_RULES == {"VAFIN"}
NICHTS_RULES == {"PIAT", "PTKANT", "PIS"}
NICHTS_FOCUS_RULES == {"NN", "PIS", "PPER"}
NICHT_NEGATED_RULES == {"VVPP", "VVIZU", "VVFIN", "VMFIN", "ART"}

\* string literals the rules compare t_word against
S_un == <<"u", "n">>
\* the one character sharp s is written "sz"
S_ausserordentlich == <<"a", "u", "sz", "e", "r", "o", "r", "d", "e", "n", "t", "l", "i", "c", "h">>
S_los == <<"l", "o", "s">>
S_lose == <<"l", "o", "s", "e">>
S_frei == <<"f", "r", "e", "i">>
S_ni == <<"n", "i">>
S_nie == <<"n", "i", "e">>
S_nic == <<"n", "i", "c">>
S_kein == <<"k", "e", "i", "n">>
S_nein == <<"n", "e", "i", "n">>
S_nicht == <<"n", "i", "c", "h", "t">>
S_nichts == <<"n", "i", "c", "h", "t", "s">>

----------------------------------------------------------------------------
(* The annotation of one sentence.                                         *)
(*                                                                         *)
(* A terminal is [word, lemma, pos]; its id is its position in the         *)
(* sentence (ids are unique in a sentence).  An idref is <<i, "t">> for    *)
(* terminal i and <<i, "s0">>, <<i, "s1">> for the two parts of a          *)
(* splitword of terminal i (t_id + '_s0', t_id + '_s1').  A frame element  *)
(* (target or fe) is [fe |-> the tag exists, nodes |-> its fenode idrefs]. *)
(* A frame's id s_id + '_f' + n is modelled by n.  The helpers below work  *)
(* on st = [frames, splitwords, ok]; ok = FALSE once an exception has been *)
(* raised, after which no helper changes anything.                         *)

TRef(i) == <<i, "t">>
PartId(i, k) == <<i, IF k = 0 THEN "s0" ELSE "s1">>
NoFe == [fe |-> FALSE, nodes |-> <<>>]
EmptyFe == [fe |-> TRUE, nodes |-> <<>>]

\* fenode.insert(0, x) on a tag's children
Prepend(x, seq) == <<x>> \o seq

\* sentence.sem.frames.find_all('frame', {'name' : NEGATION_FRAME_NAME})
NegationFrames(frames) == {k \in 1..Len(frames) : frames[k].name = NEGATION_FRAME_NAME}

\* mutant of count_frames: frames of every name are counted
count_all_frames(frames) == Len(frames)

\* count_frames(): the number of Negation frames of the sentence
count_frames(frames) == Cardinality(NegationFrames(frames))

\* mutant of LastFrame: find_all(...)[0]
FirstFrame(frames) ==
    CHOOSE k \in NegationFrames(frames) : \A j \in NegationFrames(frames) : k <= j

\* find_all(...)[-1]
LastFrame(frames) ==
    CHOOSE k \in NegationFrames(frames) : \A j \in NegationFrames(frames) : j <= k

create_splitword_tags(st, t_id, wordpart_1, wordpart_2) ==
    [st EXCEPT !.splitwords =
        Append(@, [idref |-> t_id,
                   parts |-> << [id |-> PartId(t_id, 0), word |-> wordpart_1],
                                [id |-> PartId(t_id, 1), word |-> wordpart_2] >>])]

\* the frame is appended first and numbered afterwards, by the count of
\* Negation frames that then includes it
create_negation_frame(st) ==
    LET frame == [name |-> NEGATION_FRAME_NAME, id |-> 0, target |-> NoFe,
                  focus |-> NoFe, negated |-> NoFe, scope |-> NoFe]
        appended == Append(st.frames, frame)
    IN  [st EXCEPT !.frames =
            [appended EXCEPT ![Len(appended)].id = count_frames(appended)]]

\* sentence.sem.find('splitword', {'idref' : t_id}).find('part', {'word' : word_part}):
\* the first splitword of the terminal, and in it the first part with that
\* word; <<>> when find returns None
wordpart_idref(splitwords, t_id, word_part) ==
    LET sws == {k \in 1..Len(splitwords) : splitwords[k].idref = t_id}
        sw == splitwords[CHOOSE k \in sws : \A j \in sws : k <= j]
        ps == {k \in 1..Len(sw.parts) : sw.parts[k].word = word_part}
    IN  IF ps = {} THEN <<>>
        ELSE <<sw.parts[CHOOSE k \in ps : \A j \in ps : k <= j].id>>

\* the tag is inserted in the frame before wordpart_idref.get('id') is
\* evaluated, which raises AttributeError when no part was found
SplitwordFe(st, t_id, word_part, role) ==
    IF ~st.ok THEN st
    ELSE LET ref == wordpart_idref(st.splitwords, t_id, word_part)
             k == LastFrame(st.frames)
         IN  [st EXCEPT !.frames[k][role] = [fe |-> TRUE, nodes |-> ref],
                        !.ok = (ref # <<>>)]

create_splitword_target(st, t_id, word_part) == SplitwordFe(st, t_id, word_part, "target")
create_splitword_focus(st, t_id, word_part) == SplitwordFe(st, t_id, word_part, "focus")
create_splitword_negated(st, t_id, word_part) == SplitwordFe(st, t_id, word_part, "negated")
create_splitword_scope(st, t_id, word_part) == SplitwordFe(st, t_id, word_part, "scope")

\* the body shared by the five rules and by guess_splitwords: the parts in
\* word order, then the frame with Target = marker and the three fe = stem
SplitwordRule(st, t_id, fires, part1, part2, marker, stem) ==
    IF ~st.ok \/ ~fires THEN st
    ELSE create_splitword_scope(
           create_splitword_negated(
             create_splitword_focus(
               create_splitword_target(
                 create_negation_frame(
                   create_splitword_tags(st, t_id, part1, part2)),
                 t_id, marker),
               t_id, stem),
             t_id, stem),
           t_id, stem)

\* the triggers of the five rules of detect_splitwords
Rule1Fires(t_word, t_pos) == Prefix(t_word, 2) = S_un /\ t_pos \in UN_AUS_RULES_POS_TAGS
Rule2Fires(t_word, t_pos) ==
    Prefix(t_word, 15) = S_ausserordentlich /\ t_pos \in UN_AUS_RULES_POS_TAGS
Rule3Fires(t_word) == Suffix(t_word, 3) = S_los
Rule4Fires(t_word) == Suffix(t_word, 4) = S_lose \/ Suffix(t_word, 4) = S_frei
Rule5Fires(t_word) == Slice(t_word, 5, 1) = S_lose

detect_splitwords(st, t_id, t_word, t_pos) ==
    LET r1 == SplitwordRule(st, t_id, Rule1Fires(t_word, t_pos),
                  Prefix(t_word, 2), DropPrefix(t_word, 2),
                  Prefix(t_word, 2), DropPrefix(t_word, 2))
        r2 == SplitwordRule(r1, t_id, Rule2Fires(t_word, t_pos),
                  Prefix(t_word, 5), DropPrefix(t_word, 5),
                  Prefix(t_word, 5), DropPrefix(t_word, 5))
        r3 == SplitwordRule(r2, t_id, Rule3Fires(t_word),
                  DropSuffix(t_word, 3), Suffix(t_word, 3),
                  Suffix(t_word, 3), DropSuffix(t_word, 3))
        r4 == SplitwordRule(r3, t_id, Rule4Fires(t_word),
                  DropSuffix(t_word, 4), Suffix(t_word, 4),
                  Suffix(t_word, 4), DropSuffix(t_word, 4))
        r5 == SplitwordRule(r4, t_id, Rule5Fires(t_word),
                  DropSuffix(t_word, 5), Suffix(t_word, 5),
                  Suffix(t_word, 5), DropSuffix(t_word, 5))
    IN  r5

\* mutant of GuessSplitFires: the POS test is dropped
GuessSplitFires_any_pos(t_word, t_pos) == Prefix(t_word, 2) = S_un

GuessSplitFires(t_word, t_pos) == Prefix(t_word, 2) = S_un /\ t_pos \in {"ADJD", "ADJA"}

guess_splitwords(st, t_id, t_word, t_pos) ==
    SplitwordRule(st, t_id, GuessSplitFires(t_word, t_pos),
        Prefix(t_word, 2), DropPrefix(t_word, 2),
        Prefix(t_word, 2), DropPrefix(t_word, 2))

----------------------------------------------------------------------------
(* create_target_focus_scope: ts is the sentence's terminal sequence, i the *)
(* position of the cue; prev_siblings are i-1, i-2, .., 1 (nearest first)   *)
(* and next_siblings are i+1, .., Len(ts).                                  *)

\* mutant of LeftScope: the sibling that ends the scan is added to Scope
RECURSIVE LeftScope_inclusive(_, _, _)
LeftScope_inclusive(ts, j, acc) ==
    IF j < 1 THEN acc
    ELSE IF ts[j].pos \in SCOPE_START_FENODE THEN Append(acc, TRef(j))
    ELSE LeftScope_inclusive(ts, j - 1, Append(acc, TRef(j)))

\* lines 567-574: the scope left of the cue, from sibling j leftward
RECURSIVE LeftScope(_, _, _)
LeftScope(ts, j, acc) ==
    IF j < 1 THEN acc
    ELSE IF ts[j].pos \in SCOPE_START_FENODE THEN acc
    ELSE LeftScope(ts, j - 1, Append(acc, TRef(j)))

\* mutant of RightScope: the lemma of the sibling does not end the scan
RECURSIVE RightScope_no_lemma(_, _, _)
RightScope_no_lemma(ts, j, acc) ==
    IF j > Len(ts) THEN [ok |-> TRUE, nodes |-> acc]
    ELSE IF ts[j].pos \in SCOPE_END_FENODE
         THEN [ok |-> TRUE, nodes |-> acc]
    ELSE IF ts[j].pos \in SCOPE_BREAKING_FENODE_0
         THEN IF j + 1 > Len(ts) THEN [ok |-> FALSE, nodes |-> acc]
              ELSE IF ts[j + 1].pos \in SCOPE_CONTINUE_FENODE
                   THEN RightScope_no_lemma(ts, j + 1, acc)
                   ELSE [ok |-> TRUE, nodes |-> acc]
    ELSE RightScope_no_lemma(ts, j + 1, Append(acc, TRef(j)))

\* lines 578-593: the scope right of the cue, from sibling j rightward;
\* n_s.find_next_sibling('t') is None for the last terminal, and
\* None.get('pos') raises AttributeError
RECURSIVE RightScope(_, _, _)
RightScope(ts, j, acc) ==
    IF j > Len(ts) THEN [ok |-> TRUE, nodes |-> acc]
    ELSE IF ts[j].pos \in SCOPE_END_FENODE \/ ts[j].lemma \in SCOPE_END_LEMMA
         THEN [ok |-> TRUE, nodes |-> acc]
    ELSE IF ts[j].pos \in SCOPE_BREAKING_FENODE_0
         THEN IF j + 1 > Len(ts) THEN [ok |-> FALSE, nodes |-> acc]
              ELSE IF ts[j + 1].pos \in SCOPE_CONTINUE_FENODE
                   THEN RightScope(ts, j + 1, acc)
                   ELSE [ok |-> TRUE, nodes |-> acc]
    ELSE RightScope(ts, j + 1, Append(acc, TRef(j)))

\* lines 597-601: the first next sibling with a NICHT_NEGATED_RULES tag
NegatedRight(ts, i, t_word, negated) ==
    LET hits == {j \in (i + 1)..Len(ts) : ts[j].pos \in NICHT_NEGATED_RULES}
    IN  IF t_word = S_nicht /\ hits # {}
        THEN Prepend(TRef(CHOOSE j \in hits : \A k \in hits : j <= k), negated)
        ELSE negated

\* mutant of NegatedLeft: the test that Negated has no fenode yet is dropped
NegatedLeft_unguarded(ts, i, t_word, negated) ==
    LET hits == {j \in 1..(i - 1) : ts[j].pos \in NICHT_NEGATED_RULES}
    IN  IF t_word = S_nicht /\ hits # {}
        THEN Prepend(TRef(CHOOSE j \in hits : \A k \in hits : j >= k), negated)
        ELSE negated

\* lines 604-608: the nearest previous sibling with such a tag, if the
\* Negated fe has no fenode yet
NegatedLeft(ts, i, t_word, negated) ==
    LET hits == {j \in 1..(i - 1) : ts[j].pos \in NICHT_NEGATED_RULES}
    IN  IF t_word = S_nicht /\ hits # {} /\ negated = <<>>
        THEN Prepend(TRef(CHOOSE j \in hits : \A k \in hits : j >= k), negated)
        ELSE negated

\* mutant of FocusRight: the cue 'nein' is not skipped
RECURSIVE FocusRight_nein_searched(_, _, _, _, _)
FocusRight_nein_searched(ts, j, t_word, t_pos, focus) ==
    IF j > Len(ts) THEN focus
    ELSE FocusRight_nein_searched(ts, j + 1, t_word, t_pos,
            IF ts[j].pos \in FOCUS_LEMMA_RULES /\ focus = <<>>
            THEN Prepend(TRef(j), focus) ELSE focus)

\* lines 611-632: the focus loop over the next siblings, from sibling j
RECURSIVE FocusRight(_, _, _, _, _)
FocusRight(ts, j, t_word, t_pos, focus) ==
    IF j > Len(ts) THEN focus
    ELSE LET p == ts[j].pos
         IN  IF t_word = S_nicht /\ t_pos = "PTKNEG" /\ p \in NICHT_RULES /\ focus = <<>>
             THEN Prepend(TRef(j), focus)                            \* break
             ELSE IF t_word = S_nein
             THEN FocusRight(ts, j + 1, t_word, t_pos, focus)        \* continue
             ELSE LET f1 == IF p \in FOCUS_LEMMA_RULES /\ focus = <<>>
                            THEN Prepend(TRef(j), focus) ELSE focus
                  IN  IF Prefix(t_word, 4) = S_kein /\ t_pos = "PIAT"
                      THEN IF p \in NICHT_RULES /\ f1 = <<>>
                           THEN Prepend(TRef(j), f1)                 \* break
                           ELSE FocusRight(ts, j + 1, t_word, t_pos, f1)
                      ELSE FocusRight(ts, j + 1, t_word, t_pos,
                               IF p \in FOCUS_LEMMA_RULES /\ f1 = <<>>
                               THEN Prepend(TRef(j), f1) ELSE f1)

\* lines 635-638: the focus of 'nichts'
RECURSIVE FocusNichts(_, _, _, _, _)
FocusNichts(ts, j, t_word, t_pos, focus) ==
    IF j > Len(ts) THEN focus
    ELSE FocusNichts(ts, j + 1, t_word, t_pos,
            IF /\ t_word = S_nichts /\ t_pos \in NICHTS_RULES
               /\ ts[j].pos \in NICHTS_FOCUS_RULES /\ focus = <<>>
            THEN Prepend(TRef(j), focus) ELSE focus)

\* lines 641-653: the focus loop over the previous siblings, from sibling j
RECURSIVE FocusLeft(_, _, _, _, _, _)
FocusLeft(ts, i, j, t_word, t_pos, focus) ==
    IF j < 1 THEN focus
    ELSE IF t_word = S_nicht /\ t_pos = "PTKNEG"
         THEN IF ts[j].pos \in NICHT_PREV_RULES /\ focus = <<>>
              THEN Prepend(TRef(j), focus)                           \* break
              ELSE FocusLeft(ts, i, j - 1, t_word, t_pos, focus)
         ELSE FocusLeft(ts, i, j - 1, t_word, t_pos,
                 IF t_word = S_nicht /\ focus = <<>>
                 THEN Prepend(TRef(i), focus) ELSE focus)

\* lines 655-656: 'nichts' tagged NN gets the cue itself as Focus
FocusNichtsNN(i, t_word, t_pos, focus) ==
    IF t_word = S_nichts /\ t_pos = "NN" THEN Prepend(TRef(i), focus) ELSE focus

create_target_focus_scope(st, ts, i, t_word, t_pos) ==
    IF ~st.ok THEN st
    ELSE
    LET k == LastFrame(st.frames)
        left == LeftScope(ts, i - 1, <<>>)
        right == RightScope(ts, i + 1, left)
        negated == NegatedLeft(ts, i, t_word, NegatedRight(ts, i, t_word, <<>>))
        focus == FocusNichtsNN(i, t_word, t_pos,
                   FocusLeft(ts, i, i - 1, t_word, t_pos,
                     FocusNichts(ts, i + 1, t_word, t_pos,
                       FocusRight(ts, i + 1, t_word, t_pos, <<>>))))
        made == [st.frames[k] EXCEPT !.target = [fe |-> TRUE, nodes |-> <<TRef(i)>>],
                                     !.focus = EmptyFe,
                                     !.negated = EmptyFe,
                                     !.scope = [fe |-> TRUE, nodes |-> right.nodes]]
    IN  IF ~right.ok
        THEN [st EXCEPT !.frames[k] = made, !.ok = FALSE]
        ELSE [st EXCEPT !.frames[k] =
                [made EXCEPT !.focus.nodes = focus, !.negated.nodes = negated]]

\* the triggers of detect_cuewords and of guess_cuewords
CueNiFires(t_word) == Prefix(t_word, 2) = S_ni
\* mutant of CueKeinFires: the rule fires on every word
CueKeinFires_any_word(t_word) == Len(t_word) >= 1
CueKeinFires(t_word) == Prefix(t_word, 4) = S_kein
CueNeinFires(t_word) == Prefix(t_word, 4) = S_nein
GuessNieFires(t_word) == Prefix(t_word, 3) = S_nie
\* mutant of GuessNicFires: any word of three characters or more is a cue
GuessNicFires_any_word(t_word) == Len(t_word) >= 3
GuessNicFires(t_word) == Prefix(t_word, 3) = S_nic

\* mutant of CuewordRule: the new Frame is put in front of the frames of the
\* sentence
CuewordRule_in_front(st, ts, i, fires, t_word, t_pos) ==
    IF ~st.ok \/ ~fires THEN st
    ELSE LET r == create_target_focus_scope(create_negation_frame(st), ts, i, t_word, t_pos)
             n == Len(r.frames)
         IN  [r EXCEPT !.frames = <<r.frames[n]>> \o SubSeq(r.frames, 1, n - 1)]

CuewordRule(st, ts, i, fires, t_word, t_pos) ==
    IF ~st.ok \/ ~fires THEN st
    ELSE create_target_focus_scope(create_negation_frame(st), ts, i, t_word, t_pos)

detect_cuewords(st, ts, i, t_word, t_pos) ==
    LET c1 == CuewordRule(st, ts, i, CueNiFires(t_word), t_word, t_pos)
        c2 == CuewordRule(c1, ts, i, CueKeinFires(t_word), t_word, t_pos)
        c3 == CuewordRule(c2, ts, i, CueNeinFires(t_word), t_word, t_pos)
    IN  c3

guess_cuewords(st, ts, i, t_word, t_pos) ==
    LET c1 == CuewordRule(st, ts, i, GuessNieFires(t_word), t_word, t_pos)
        c2 == CuewordRule(c1, ts, i, GuessNicFires(t_word), t_word, t_pos)
    IN  c2

----------------------------------------------------------------------------
(* Vocabulary of the checked sentences *)

W_nicht == S_nicht
W_nichts == S_nichts
W_Nein == <<"N", "e", "i", "n">>
W_kein == S_kein
W_und == L_und
W_gekommen == <<"g", "e", "k", "o", "m", "m", "e", "n">>
W_kommen == <<"k", "o", "m", "m", "e", "n">>
W_kam == <<"k", "a", "m">>
W_oft == <<"o", "f", "t">>
W_hat == <<"h", "a", "t">>
W_haben == <<"h", "a", "b", "e", "n">>
W_stop == <<".">>
W_comma == <<",">>
W_zweifellos == <<"z", "w", "e", "i", "f", "e", "l", "l", "o", "s">>
W_Unklar == <<"U", "n", "k", "l", "a", "r">>
W_unruhe == <<"u", "n", "r", "u", "h", "e">>
W_arglose == <<"a", "r", "g", "l", "o", "s", "e">>
W_unarglos == <<"u", "n", "a", "r", "g", "l", "o", "s">>
W_namenloser == <<"n", "a", "m", "e", "n", "l", "o", "s", "e", "r">>
W_frei == S_frei
W_loslos == <<"l", "o", "s", "l", "o", "s">>
W_haus == <<"h", "a", "u", "s">>
W_niveaulos == <<"n", "i", "v", "e", "a", "u", "l", "o", "s">>

Term(w, l, p) == [word |-> w, lemma |-> l, pos |-> p]

\* terminals of the sentences that exercise the whole-word cue rules
CueTerminals ==
    { Term(W_nicht, W_nicht, "PTKNEG"),
      Term(W_nichts, W_nichts, "NN"),
      Term(W_nichts, W_nichts, "PIS"),
      Term(W_kein, W_kein, "PIAT"),
      Term(W_Nein, S_nein, "PTKANT"),
      Term(W_gekommen, W_kommen, "VVPP"),
      Term(W_kam, W_kommen, "VVFIN"),
      Term(W_hat, W_haben, "VAFIN"),
      Term(W_oft, W_oft, "ADV"),
      Term(W_und, W_und, "KON"),
      Term(W_comma, W_comma, "$,"),
      Term(W_stop, W_stop, "$.") }

\* terminals of the sentences that exercise the splitword rules
SplitTerminals ==
    { Term(W_zweifellos, W_zweifellos, "ADJD"),
      Term(W_Unklar, Lower(W_Unklar), "ADJD"),
      Term(W_unruhe, W_unruhe, "NN"),
      Term(S_ausserordentlich, S_ausserordentlich, "ADJD"),
      Term(W_arglose, W_arglose, "ADJA"),
      Term(W_unarglos, W_unarglos, "ADJD"),
      Term(W_namenloser, W_namenloser, "ADJA"),
      Term(W_frei, W_frei, "ADJD"),
      Term(W_loslos, W_loslos, "ADJD"),
      Term(W_niveaulos, W_niveaulos, "ADJD"),
      Term(W_haus, W_haus, "NN"),
      Term(W_und, W_und, "KON"),
      Term(W_nicht, W_nicht, "PTKNEG") }

\* the cueword file read into cueword_list: every word of the vocabulary, or
\* none (an unseen vocabulary, which the guess rules probe)
KnownCues == {Lower(t.word) : t \in CueTerminals \cup SplitTerminals}
CueLists == {KnownCues, {}}

MaxLenCue == 3
MaxLenSplit == 2

SentencesOver(T, n) == UNION {[1..m -> T] : m \in 1..n}

----------------------------------------------------------------------------
(* State *)

VARIABLES
    \* detect_negation, for the sentence being annotated
    terminals,      \* the <t> elements of the sentence, in document order
    cueword_list,   \* the lines of the cueword file
    frames,         \* the <frame> elements of the sentence's <frames>
    splitwords,     \* the <splitword> elements of the sentence's <splitwords>
    t_idx,          \* position of the terminal the main loop is at
    pc,             \* "splitwords", "cuewords": the next call of the loop body;
                    \* "written": the file was written; "crashed": an
                    \* exception ended detect_negation before the write;
                    \* "idle": detect_negation is not running
    \* evaluate, for one pair of files
    sentences_gold, \* chapter_input_gold.find_all('s')
    sentences_test, \* chapter_input_test.find_all('s')
    s_idx,          \* position of the zip over the sentences
    f_idx,          \* position of the zip over the frames of the sentence pair
    scores,         \* the *_scores accumulators
    counts,         \* sentence_count and the *_frames_count counters
    words,          \* target_/focus_/negated_ gold_word and test_word
    lists,          \* the sorted_* lists and *_normalized vectors of the
                    \* last frame pair
    output,         \* what evaluate has printed
    epc             \* "start", "sentence", "frames": position in evaluate;
                    \* "done": the report was printed; "mismatch": SystemExit
                    \* on the sentence counts; "crashed": another exception
                    \* ended evaluate; "idle": evaluate is not running

annvars == <<terminals, cueword_list, frames, splitwords, t_idx, pc>>
evalvars == <<sentences_gold, sentences_test, s_idx, f_idx, scores, counts,
              words, lists, output, epc>>
vars == <<annvars, evalvars>>

\* evaluate is not running
EvalIdle ==
    /\ sentences_gold = <<>> /\ sentences_test = <<>>
    /\ s_idx = 0 /\ f_idx = 0
    /\ scores = <<>> /\ counts = <<>> /\ words = <<>> /\ lists = <<>>
    /\ output = <<>>
    /\ epc = "idle"

\* detect_negation is not running
AnnotateIdle ==
    /\ terminals = <<>> /\ cueword_list = {} /\ frames = <<>> /\ splitwords = <<>>
    /\ t_idx = 0
    /\ pc = "idle"

\* t_word, t_pos of the main loop (lines 666-672)
t_word == Lower(terminals[t_idx].word)
t_pos == terminals[t_idx].pos

St == [frames |-> frames, splitwords |-> splitwords, ok |-> TRUE]

\* a frame of another kind that the input already holds: remove_frames drops
\* the Negation frames and the splitwords only
OtherFrame == [name |-> "Other", id |-> 1, target |-> EmptyFe,
               focus |-> NoFe, negated |-> NoFe, scope |-> NoFe]

InitAnnotate(T, n, F) ==
    /\ terminals \in SentencesOver(T, n)
    /\ cueword_list \in CueLists
    /\ frames \in F
    /\ splitwords = <<>>
    /\ t_idx = 1
    /\ pc = "splitwords"
    /\ EvalIdle

\* mutant of Apply: the loop body stores t_word, the lowercased word, in the
\* terminal
Apply_lowercasing(st, nextpc, nextidx) ==
    /\ frames' = st.frames
    /\ splitwords' = st.splitwords
    /\ pc' = IF st.ok THEN nextpc ELSE "crashed"
    /\ t_idx' = IF st.ok THEN nextidx ELSE t_idx
    /\ terminals' = [terminals EXCEPT ![t_idx].word = Lower(@)]
    /\ UNCHANGED <<cueword_list, evalvars>>

\* the effect of one call of the loop body on the sentence
Apply(st, nextpc, nextidx) ==
    /\ frames' = st.frames
    /\ splitwords' = st.splitwords
    /\ pc' = IF st.ok THEN nextpc ELSE "crashed"
    /\ t_idx' = IF st.ok THEN nextidx ELSE t_idx
    /\ UNCHANGED <<terminals, cueword_list, evalvars>>

\* line 677-678
DetectSplitwords ==
    /\ pc = "splitwords" /\ t_idx <= Len(terminals)
    /\ t_word \in cueword_list
    /\ Apply(detect_splitwords(St, t_idx, t_word, t_pos), "cuewords", t_idx)

\* line 679
DetectCuewords ==
    /\ pc = "cuewords"
    /\ t_word \in cueword_list
    /\ Apply(detect_cuewords(St, terminals, t_idx, t_word, t_pos), "splitwords", t_idx + 1)

\* line 681-682
GuessSplitwords ==
    /\ pc = "splitwords" /\ t_idx <= Len(terminals)
    /\ t_word \notin cueword_list
    /\ Apply(guess_splitwords(St, t_idx, t_word, t_pos), "cuewords", t_idx)

\* line 683
GuessCuewords ==
    /\ pc = "cuewords"
    /\ t_word \notin cueword_list
    /\ Apply(guess_cuewords(St, terminals, t_idx, t_word, t_pos), "splitwords", t_idx + 1)

\* line 685: after the last terminal the annotated sentence is written
WriteOutput ==
    /\ pc = "splitwords" /\ t_idx > Len(terminals)
    /\ pc' = "written"
    /\ UNCHANGED <<terminals, cueword_list, frames, splitwords, t_idx, evalvars>>

Next ==
    \/ DetectSplitwords
    \/ DetectCuewords
    \/ GuessSplitwords
    \/ GuessCuewords
    \/ WriteOutput

\* sentences for the sibling-window rules of create_target_focus_scope
InitCue == InitAnnotate(CueTerminals, MaxLenCue, {<<>>})
SpecCue == InitCue /\ [][Next]_vars

\* sentences for the splitword rules and the frame numbering
InitSplit == InitAnnotate(SplitTerminals, MaxLenSplit, {<<>>, <<OtherFrame>>})
SpecSplit == InitSplit /\ [][Next]_vars

----------------------------------------------------------------------------
(* Properties of the annotator *)

\* Python's startswith / endswith, used to state the triggers independently
\* of the slices the rules compute
StartsWith(w, lit) == Len(w) >= Len(lit) /\ \A k \in 1..Len(lit) : w[k] = lit[k]
EndsWith(w, lit) ==
    Len(w) >= Len(lit) /\ \A k \in 1..Len(lit) : w[Len(w) - Len(lit) + k] = lit[k]

\* terminal i, as the known-cue rules (inList) or the guess rules see it,
\* matches a splitword trigger
SplitTrigger(i, inList) ==
    LET w == Lower(terminals[i].word)
        p == terminals[i].pos
    IN  IF inList
        THEN \/ StartsWith(w, S_un) /\ p \in {"ADJA", "ADJD", "NN", "VVFIN", "VVPP", "VVINF"}
             \/ StartsWith(w, S_ausserordentlich)
                  /\ p \in {"ADJA", "ADJD", "NN", "VVFIN", "VVPP", "VVINF"}
             \/ EndsWith(w, S_los)
             \/ EndsWith(w, S_lose)
             \/ EndsWith(w, S_frei)
             \/ \E c \in {w[k] : k \in 1..Len(w)} : EndsWith(w, Append(S_lose, c))
        ELSE StartsWith(w, S_un) /\ p \in {"ADJD", "ADJA"}

\* terminal i matches a whole-word cue trigger
CueTrigger(i, inList) ==
    LET w == Lower(terminals[i].word)
    IN  IF inList
        THEN StartsWith(w, S_ni) \/ StartsWith(w, S_kein) \/ StartsWith(w, S_nein)
        ELSE StartsWith(w, S_nie) \/ StartsWith(w, S_nic)

InList(i) == Lower(terminals[i].word) \in cueword_list

\* C1: a terminal that matches no splitword trigger and no whole-word cue
\* trigger, on the path its membership in the cueword list selects, leaves the
\* frames and the splitwords of the sentence as they were: neither call of the
\* loop body on it creates a Frame or a SplitWordPart.
C1_NoSpuriousFrames ==
    [][ (/\ pc \in {"splitwords", "cuewords"}
         /\ t_idx <= Len(terminals)
         /\ ~SplitTrigger(t_idx, InList(t_idx))
         /\ ~CueTrigger(t_idx, InList(t_idx)))
        => (frames' = frames /\ splitwords' = splitwords) ]_vars

\* C1 witness: both calls of the loop body have run on a terminal that matches
\* no trigger ('und', KON, begins with 'un' but has no rule-1 tag), after an
\* earlier terminal had created a frame
C1_Witness ==
    /\ pc = "splitwords" /\ t_idx = 3
    /\ Lower(terminals[2].word) = W_und
    /\ ~SplitTrigger(2, InList(2)) /\ ~CueTrigger(2, InList(2))
    /\ SplitTrigger(1, InList(1))
    /\ Len(splitwords) = 1

\* the ids of the Negation frames of the sentence, in creation order
NegationIds ==
    LET RECURSIVE Ids(_)
        Ids(k) == IF k > Len(frames) THEN <<>>
                  ELSE IF frames[k].name = NEGATION_FRAME_NAME
                       THEN <<frames[k].id>> \o Ids(k + 1)
                       ELSE Ids(k + 1)
    IN  Ids(1)

\* C2 as stated: the index of a new Frame is the number of Negation frames
\* created before it in the sentence, so the indices are 0, 1, 2, ...
C2_IdsFromZero ==
    \A k \in 1..Len(NegationIds) : NegationIds[k] = k - 1

\* C2 as amended: the index of a new Frame is the number of Negation frames of
\* the sentence including the new one, so the indices are 1, 2, 3, ... in
\* creation order, whichever rule created the Frame, and no id is used twice.
C2_IdsFromOne ==
    \A k \in 1..Len(NegationIds) : NegationIds[k] = k

\* C2 witness: a written sentence that held a frame of another kind and got a
\* splitword Frame and then a whole-word Frame
C2_Witness ==
    /\ pc = "written"
    /\ Len(frames) = 3
    /\ frames[1].name # NEGATION_FRAME_NAME
    /\ frames[2].target.nodes # <<>> /\ frames[2].target.nodes[1][2] # "t"
    /\ frames[3].target.nodes # <<>> /\ frames[3].target.nodes[1][2] = "t"

\* the number of splitword rules that fire on terminal i
SplitRulesFiring(i, inList) ==
    LET w == Lower(terminals[i].word)
        p == terminals[i].pos
        tags == {"ADJA", "ADJD", "NN", "VVFIN", "VVPP", "VVINF"}
        b(x) == IF x THEN 1 ELSE 0
    IN  IF inList
        THEN b(StartsWith(w, S_un) /\ p \in tags)
             + b(StartsWith(w, S_ausserordentlich) /\ p \in tags)
             + b(EndsWith(w, S_los))
             + b(EndsWith(w, S_lose) \/ EndsWith(w, S_frei))
             + b(\E c \in {w[k] : k \in 1..Len(w)} : EndsWith(w, Append(S_lose, c)))
        ELSE b(StartsWith(w, S_un) /\ p \in {"ADJD", "ADJA"})

\* the part of terminal i that holds the negation marker: the first part for
\* the prefix rules, the second for the suffix rules
MarkerPart(i) ==
    LET w == Lower(terminals[i].word)
    IN  IF StartsWith(w, S_un) \/ StartsWith(w, S_ausserordentlich) THEN 0 ELSE 1

\* the frames that a splitword rule created for terminal i
SplitFramesOf(i) ==
    {k \in 1..Len(frames) :
        /\ frames[k].name = NEGATION_FRAME_NAME
        /\ frames[k].target.nodes # <<>>
        /\ frames[k].target.nodes[1][1] = i
        /\ frames[k].target.nodes[1][2] # "t"}

\* C3: when exactly one splitword rule fires on a token, the Frame's Target
\* references the part that holds the negation marker, and Focus, Negated and
\* Scope each hold exactly one reference, all three to the other part, the stem.
C3_SplitwordRoles ==
    \A i \in 1..Len(terminals) : \A k \in SplitFramesOf(i) :
        SplitRulesFiring(i, InList(i)) = 1 =>
            /\ frames[k].target.nodes = <<PartId(i, MarkerPart(i))>>
            /\ frames[k].focus.nodes = <<PartId(i, 1 - MarkerPart(i))>>
            /\ frames[k].negated.nodes = <<PartId(i, 1 - MarkerPart(i))>>
            /\ frames[k].scope.nodes = <<PartId(i, 1 - MarkerPart(i))>>

\* the frames that a whole-word cue rule created, and the cue of such a frame
CueFrames ==
    {k \in 1..Len(frames) :
        /\ frames[k].name = NEGATION_FRAME_NAME
        /\ frames[k].target.nodes # <<>>
        /\ frames[k].target.nodes[1][2] = "t"}
CueOf(k) == frames[k].target.nodes[1][1]

SetMax(S) == CHOOSE x \in S : \A y \in S : y <= x
SetMin(S) == CHOOSE x \in S : \A y \in S : x <= y

\* the Scope references of frame k to terminals left of its cue
LeftPart(k) == SelectSeq(frames[k].scope.nodes, LAMBDA r : r[1] < CueOf(k))

\* C7: in every whole-word cue Frame the leftward part of Scope is the previous
\* siblings of the cue, nearest first, up to but excluding the first one whose
\* POS is $*LRB*, $, , KON or KOUS; all of them if there is no such sibling.
C7_LeftScope ==
    \A k \in CueFrames :
        LET i == CueOf(k)
            stops == {j \in 1..(i - 1) : terminals[j].pos \in {"$*LRB*", "$,", "KON", "KOUS"}}
            s == IF stops = {} THEN 0 ELSE SetMax(stops)
        IN  LeftPart(k) = [n \in 1..(i - 1 - s) |-> TRef(i - n)]

\* C7 witness: a written sentence [x(KON), y, cue] whose Frame has y as its
\* leftward Scope and not x
C7_Witness ==
    /\ pc = "written"
    /\ Len(terminals) = 3
    /\ terminals[1].pos = "KON"
    /\ terminals[2].pos = "VAFIN"
    /\ \E k \in CueFrames : CueOf(k) = 3 /\ LeftPart(k) = <<TRef(2)>>

\* C8: in every whole-word cue Frame no terminal at or after the first next
\* sibling whose POS is $. or $*LRB*, or whose lemma is the dash or 'und', is in
\* Scope, and every next sibling before the first sibling that has such a POS
\* or lemma or is a comma is in Scope.
C8_RightScope ==
    \A k \in CueFrames :
        LET i == CueOf(k)
            ends == {j \in (i + 1)..Len(terminals) :
                        \/ terminals[j].pos \in {"$.", "$*LRB*"}
                        \/ terminals[j].lemma \in {L_dash, L_und}}
            breaks == ends \cup {j \in (i + 1)..Len(terminals) : terminals[j].pos = "$,"}
            upto == IF breaks = {} THEN Len(terminals) ELSE SetMin(breaks) - 1
            refs == {frames[k].scope.nodes[n] : n \in 1..Len(frames[k].scope.nodes)}
        IN  /\ ends # {} => \A r \in refs : r[1] < SetMin(ends)
            /\ \A j \in (i + 1)..upto : TRef(j) \in refs

\* C8 witness: [nicht(PTKNEG), gekommen(VVPP), .($.)] is written with a Scope
\* that holds 'gekommen' and not '.'
C8_Witness ==
    /\ pc = "written"
    /\ terminals = << Term(W_nicht, W_nicht, "PTKNEG"),
                      Term(W_gekommen, W_kommen, "VVPP"),
                      Term(W_stop, W_stop, "$.") >>
    /\ \E k \in CueFrames : CueOf(k) = 1 /\ frames[k].scope.nodes = <<TRef(2)>>

C10_AtMostOneFocusNegated ==
    \A k \in NegationFrames(frames) :
        /\ Len(frames[k].focus.nodes) <= 1
        /\ Len(frames[k].negated.nodes) <= 1

----------------------------------------------------------------------------
(* The evaluator, evaluation.py.                                           *)
(*                                                                         *)
(* A sentence is [nodes, frames]: nodes maps the ids of the sentence's     *)
(* elements to [hasword, word, edges] (a terminal or a splitword part has  *)
(* a word, a nonterminal has edges), frames are its <frame> elements in    *)
(* document order, as the annotator writes them.  A number is an exact     *)
(* fraction [n, d, float]: float = FALSE is the Python int the sums start  *)
(* as, float = TRUE a numpy float64, where d = 0 is nan (n = 0) or inf.    *)

RECURSIVE GCD(_, _)
GCD(a, b) == IF b = 0 THEN a ELSE GCD(b, a % b)

NaN == [n |-> 0, d |-> 0, float |-> TRUE]
Inf == [n |-> 1, d |-> 0, float |-> TRUE]
Frac(n, d) ==
    IF d = 0 THEN NaN
    ELSE [n |-> n \div GCD(n, d), d |-> d \div GCD(n, d), float |-> TRUE]
Zero == Frac(0, 1)
One == Frac(1, 1)
\* the int 0 of lines 95-116 and of a score sklearn cannot define
IntZero == [n |-> 0, d |-> 1, float |-> FALSE]
\* a + b
FAdd(a, b) ==
    IF a.d = 0 \/ b.d = 0 THEN NaN
    ELSE [Frac(a.n * b.d + b.n * a.d, a.d * b.d) EXCEPT !.float = a.float \/ b.float]
\* a * k for an int k
FMulInt(a, k) == IF a.d = 0 THEN NaN ELSE Frac(a.n * k, a.d)
\* a / k for an int k: ZeroDivisionError for int / 0, inf or nan for
\* float64 / 0
FDivInt(a, k) ==
    IF k = 0
    THEN [ok |-> a.float, v |-> IF a.d # 0 /\ a.n > 0 THEN Inf ELSE NaN]
    ELSE [ok |-> TRUE, v |-> IF a.d = 0 THEN a ELSE Frac(a.n, a.d * k)]

\* the characters of the vocabulary in code point order, for sorted()
OrderedChars ==
    << ",", ".", "K", "N", "U", "Z",
       "a", "b", "c", "d", "e", "f", "g", "h", "i", "k", "l", "m", "n", "o",
       "r", "s", "t", "u", "w", "z", "sz", "--" >>
CharRank(c) == CHOOSE k \in 1..Len(OrderedChars) : OrderedChars[k] = c

\* u < v on Python strings
RECURSIVE WordLess(_, _)
WordLess(u, v) ==
    IF v = <<>> THEN FALSE
    ELSE IF u = <<>> THEN TRUE
    ELSE IF u[1] = v[1] THEN WordLess(Tail(u), Tail(v))
    ELSE CharRank(u[1]) < CharRank(v[1])

\* sorted(list)
RECURSIVE Insert(_, _)
Insert(w, sorted) ==
    IF sorted = <<>> THEN <<w>>
    ELSE IF WordLess(w, Head(sorted)) THEN <<w>> \o sorted
    ELSE <<Head(sorted)>> \o Insert(w, Tail(sorted))
RECURSIVE Sorted(_)
Sorted(list) == IF list = <<>> THEN <<>> ELSE Insert(Head(list), Sorted(Tail(list)))

\* an element of a nested list: a word, or a list
Leaf(w) == [leaf |-> TRUE, w |-> w, items |-> <<>>]
Nested(items) == [leaf |-> FALSE, w |-> <<>>, items |-> items]

\* flatten(nested_list), lines 173-181
RECURSIVE flatten(_)
flatten(nested_list) ==
    IF nested_list = <<>> THEN <<>>
    ELSE (IF Head(nested_list).leaf THEN <<Head(nested_list).w>>
          ELSE flatten(Head(nested_list).items))
         \o flatten(Tail(nested_list))

Raised == [ok |-> FALSE, w |-> <<>>, items |-> <<>>]

\* s.find(id=idref).get('word').lower(): find returns None for an id the
\* sentence does not hold and get returns None for an element without a
\* word, and either raises AttributeError
WordOf(s, idref) ==
    IF idref \notin DOMAIN s.nodes THEN Raised
    ELSE IF ~s.nodes[idref].hasword THEN Raised
    ELSE [ok |-> TRUE, w |-> Lower(s.nodes[idref].word), items |-> <<>>]

\* tag.find('fenode').get('idref') and then the word: find returns None for a
\* tag that does not exist or has no fenode
RoleWord(s, tag) ==
    IF ~tag.fe \/ tag.nodes = <<>> THEN Raised ELSE WordOf(s, tag.nodes[1])

\* try: ... except: word = ''
OrEmpty(r) == IF r.ok THEN r.w ELSE <<>>

\* a local variable that has not been assigned
Unbound == <<"unbound">>

\* lines 183-209: the Target words; r.ok = FALSE when an exception leaves the
\* function
TargetWords(s_gold, s_test, gold, test, old) ==
    IF gold.target.fe
    THEN LET g == RoleWord(s_gold, gold.target)
         IN  [ok |-> g.ok, gold |-> g.w, test |-> OrEmpty(RoleWord(s_test, test.target))]
    ELSE IF test.target.fe
    THEN LET t == RoleWord(s_test, test.target)
         IN  [ok |-> t.ok, gold |-> <<>>, test |-> t.w]
    ELSE [ok |-> old.target_gold_word # Unbound /\ old.target_test_word # Unbound,
          gold |-> old.target_gold_word, test |-> old.target_test_word]

\* lines 219-255: the Focus words
FocusWords(s_gold, s_test, gold, test, old) ==
    IF gold.focus.fe
    THEN [ok |-> TRUE, gold |-> OrEmpty(RoleWord(s_gold, gold.focus)),
          test |-> OrEmpty(RoleWord(s_test, test.focus))]
    ELSE IF test.focus.fe
    THEN [ok |-> TRUE, gold |-> <<>>, test |-> OrEmpty(RoleWord(s_test, test.focus))]
    ELSE [ok |-> old.focus_gold_word # Unbound /\ old.focus_test_word # Unbound,
          gold |-> old.focus_gold_word, test |-> old.focus_test_word]

\* lines 265-304: the Negated words; the gold fenode is read outside the try
NegatedWords(s_gold, s_test, gold, test) ==
    IF gold.negated.fe
    THEN [ok |-> gold.negated.nodes # <<>>,
          gold |-> OrEmpty(RoleWord(s_gold, gold.negated)),
          test |-> OrEmpty(RoleWord(s_test, test.negated))]
    ELSE IF test.negated.fe
    THEN [ok |-> TRUE, gold |-> <<>>, test |-> OrEmpty(RoleWord(s_test, test.negated))]
    ELSE [ok |-> TRUE, gold |-> <<>>, test |-> <<>>]

\* the recursion depth at which resolving an id of s can only be in a cycle,
\* which ends in RecursionError
DepthLimit(s) == Cardinality(DOMAIN s.nodes) + 1

\* lines 315-333: resolve_non_terminals(idref), at recursion depth `depth`;
\* [ok, items]
RECURSIVE resolve_non_terminals(_, _, _)
RECURSIVE ResolveEdges(_, _, _, _)
ResolveEdges(s_gold, edges, depth, acc) ==
    IF edges = <<>> THEN [ok |-> TRUE, w |-> <<>>, items |-> acc]
    ELSE LET e_id == Head(edges)
         IN  IF e_id \notin DOMAIN s_gold.nodes THEN Raised
             ELSE IF s_gold.nodes[e_id].hasword
             THEN ResolveEdges(s_gold, Tail(edges), depth,
                     Append(acc, Leaf(Lower(s_gold.nodes[e_id].word))))
             ELSE LET r == resolve_non_terminals(s_gold, e_id, depth + 1)
                  IN  IF ~r.ok THEN Raised
                      ELSE ResolveEdges(s_gold, Tail(edges), depth,
                              Append(acc, Nested(r.items)))
\* mutant of resolve_non_terminals: the edges are taken last to first
resolve_non_terminals_reversed(s_gold, idref, depth) ==
    IF depth > DepthLimit(s_gold) THEN Raised
    ELSE IF idref \notin DOMAIN s_gold.nodes THEN Raised
    ELSE LET edges == s_gold.nodes[idref].edges
         IN  ResolveEdges(s_gold, [k \in 1..Len(edges) |-> edges[Len(edges) + 1 - k]],
                          depth, <<>>)
resolve_non_terminals(s_gold, idref, depth) ==
    IF depth > DepthLimit(s_gold) THEN Raised
    ELSE IF idref \notin DOMAIN s_gold.nodes THEN Raised
    ELSE ResolveEdges(s_gold, s_gold.nodes[idref].edges, depth, <<>>)

\* lines 335-353: resolve_non_terminals_test(idref): the edges are those of
\* the test sentence, and a nonterminal among them is resolved by
\* resolve_non_terminals
RECURSIVE ResolveEdgesTest(_, _, _, _)
ResolveEdgesTest(s_gold, s_test, edges, acc) ==
    IF edges = <<>> THEN [ok |-> TRUE, w |-> <<>>, items |-> acc]
    ELSE LET e_id == Head(edges)
         IN  IF e_id \notin DOMAIN s_test.nodes THEN Raised
             ELSE IF s_test.nodes[e_id].hasword
             THEN ResolveEdgesTest(s_gold, s_test, Tail(edges),
                     Append(acc, Leaf(Lower(s_test.nodes[e_id].word))))
             ELSE LET r == resolve_non_terminals(s_gold, e_id, 2)
                  IN  IF ~r.ok THEN Raised
                      ELSE ResolveEdgesTest(s_gold, s_test, Tail(edges),
                              Append(acc, Nested(r.items)))
resolve_non_terminals_test(s_gold, s_test, idref) ==
    IF idref \notin DOMAIN s_test.nodes THEN Raised
    ELSE ResolveEdgesTest(s_gold, s_test, s_test.nodes[idref].edges, <<>>)

\* lines 359-370 (and 407-418): the words of the gold Scope fenodes
RECURSIVE ScopeGoldItems(_, _, _)
ScopeGoldItems(s_gold, fenodes, acc) ==
    IF fenodes = <<>> THEN [ok |-> TRUE, w |-> <<>>, items |-> acc]
    ELSE LET s_id == Head(fenodes)
         IN  IF s_id \notin DOMAIN s_gold.nodes THEN Raised
             ELSE IF s_gold.nodes[s_id].hasword
             THEN ScopeGoldItems(s_gold, Tail(fenodes),
                     Append(acc, Leaf(Lower(s_gold.nodes[s_id].word))))
             ELSE LET r == resolve_non_terminals(s_gold, s_id, 1)
                  IN  IF ~r.ok THEN Raised
                      ELSE ScopeGoldItems(s_gold, Tail(fenodes), Append(acc, Nested(r.items)))

\* lines 375-384 (and 391-402): the words of the test Scope fenodes
RECURSIVE ScopeTestItems(_, _, _, _)
ScopeTestItems(s_gold, s_test, fenodes, acc) ==
    IF fenodes = <<>> THEN [ok |-> TRUE, w |-> <<>>, items |-> acc]
    ELSE LET s_id == Head(fenodes)
         IN  IF s_id \notin DOMAIN s_test.nodes THEN Raised
             ELSE IF s_test.nodes[s_id].hasword
             THEN ScopeTestItems(s_gold, s_test, Tail(fenodes),
                     Append(acc, Leaf(Lower(s_test.nodes[s_id].word))))
             ELSE LET r == resolve_non_terminals_test(s_gold, s_test, s_id)
                  IN  IF ~r.ok THEN Raised
                      ELSE ScopeTestItems(s_gold, s_test, Tail(fenodes),
                              Append(acc, Nested(r.items)))

\* lines 355-420: scope_gold_list and scope_test_list
ScopeLists(s_gold, s_test, gold, test) ==
    IF gold.scope.fe
    THEN LET g == ScopeGoldItems(s_gold, gold.scope.nodes, <<>>)
             t == IF test.scope.fe
                  THEN ScopeTestItems(s_gold, s_test, test.scope.nodes, <<>>)
                  ELSE [ok |-> TRUE, w |-> <<>>, items |-> <<Leaf(<<>>)>>]
         IN  [ok |-> g.ok /\ t.ok, gold |-> g.items, test |-> t.items]
    ELSE IF test.scope.fe
    THEN LET t == ScopeTestItems(s_gold, s_test, test.scope.nodes, <<>>)
         IN  [ok |-> t.ok, gold |-> <<Leaf(<<>>)>>, test |-> t.items]
    ELSE [ok |-> TRUE, gold |-> <<>>, test |-> <<>>]

\* mutant of Pad: nothing is appended
Pad_nothing(list, n) == list

\* the while loops of lines 438-440, 449-451 and 457-459: n - len(list) times
\* list.append('')
Pad(list, n) ==
    IF n > Len(list) THEN list \o [k \in 1..(n - Len(list)) |-> <<>>] ELSE list

Elems(list) == {list[k] : k \in DOMAIN list}

\* list(a_set): the elements once each, in an order the hash seed decides
Orders(S) ==
    {p \in [1..Cardinality(S) -> S] :
        \A a, b \in 1..Cardinality(S) : a # b => p[a] # p[b]}

\* lines 430-459: the lists sorted_scope_test_list can be afterwards
ScopeTestOutcomes(sorted_scope_gold_list, sorted_scope_test_list) ==
    LET n_gold == Len(sorted_scope_gold_list)
        n_test == Len(sorted_scope_test_list)
        intersection == Elems(sorted_scope_gold_list) \cap Elems(sorted_scope_test_list)
    IN  IF n_gold = n_test
        THEN IF Cardinality(intersection) < n_test
             THEN {Pad(p, n_test) : p \in Orders(intersection)}
             ELSE {sorted_scope_test_list}
        ELSE IF n_gold > n_test
        THEN {Pad(sorted_scope_test_list, n_gold)}
        ELSE {sorted_scope_test_list}

\* lines 453-459: sorted_scope_gold_list afterwards
ScopeGoldOutcome(sorted_scope_gold_list, sorted_scope_test_list) ==
    IF Len(sorted_scope_test_list) > Len(sorted_scope_gold_list)
    THEN Pad(sorted_scope_gold_list, Len(sorted_scope_test_list))
    ELSE sorted_scope_gold_list

\* lines 463, 466, 469, 472: the gold vector
GoldNormalized(gold_list) ==
    [k \in DOMAIN gold_list |->
        IF gold_list[k] \in Elems(gold_list) /\ gold_list[k] # <<>> THEN 1 ELSE 0]

\* lines 464, 467, 470: the Target, Focus and Negated test vector
TestNormalized(gold_list, test_list) ==
    [k \in DOMAIN test_list |-> IF test_list[k] \in Elems(gold_list) THEN 1 ELSE 0]

\* line 473: the Scope test vector
ScopeTestNormalized(gold_list, test_list) ==
    [k \in DOMAIN test_list |->
        IF test_list[k] \in Elems(gold_list) THEN 1
        ELSE IF test_list[k] # <<>> THEN 1 ELSE 0]

\* sklearn.metrics, as called in lines 482-498 on vectors of equal length:
\* per label the support, the predictions and the true positives
Support(y_true, c) == Cardinality({k \in DOMAIN y_true : y_true[k] = c})
TruePositives(y_true, y_pred, c) ==
    Cardinality({k \in DOMAIN y_true : y_true[k] = c /\ y_pred[k] = c})

LabelPrecision(y_true, y_pred, c) ==
    IF Support(y_pred, c) = 0 THEN Zero
    ELSE Frac(TruePositives(y_true, y_pred, c), Support(y_pred, c))
LabelRecall(y_true, y_pred, c) ==
    IF Support(y_true, c) = 0 THEN Zero
    ELSE Frac(TruePositives(y_true, y_pred, c), Support(y_true, c))
LabelF1(y_true, y_pred, c) ==
    IF TruePositives(y_true, y_pred, c) = 0 THEN Zero
    ELSE Frac(2 * TruePositives(y_true, y_pred, c),
              Support(y_true, c) + Support(y_pred, c))

\* average='weighted': the labels' scores weighted by their support; the
\* int 0 when there is no support at all
Weighted(y_true, score0, score1) ==
    IF Len(y_true) = 0 THEN IntZero
    ELSE FDivInt(FAdd(FMulInt(score0, Support(y_true, 0)),
                      FMulInt(score1, Support(y_true, 1))), Len(y_true)).v

precision_score(y_true, y_pred) ==
    Weighted(y_true, LabelPrecision(y_true, y_pred, 0), LabelPrecision(y_true, y_pred, 1))
recall_score(y_true, y_pred) ==
    Weighted(y_true, LabelRecall(y_true, y_pred, 0), LabelRecall(y_true, y_pred, 1))
f1_score(y_true, y_pred) ==
    Weighted(y_true, LabelF1(y_true, y_pred, 0), LabelF1(y_true, y_pred, 1))

\* on two lists of words the score is the share of positions holding equal
\* words, the mean of an empty array being nan
jaccard_similarity_score(y_true, y_pred) ==
    Frac(Cardinality({k \in DOMAIN y_true : y_true[k] = y_pred[k]}), Len(y_true))

----------------------------------------------------------------------------
(* The evaluator's state machine: one file pair of evaluate().             *)

\* s.find_all('frame', {'name' : NEGATION_FRAME_NAME})
NegationFramesOf(s) == SelectSeq(s.frames, LAMBDA f : f.name = NEGATION_FRAME_NAME)

\* len(chapter.find_all('fe', {'name' : SCOPE_TAG_NAME})), lines 133-137
RECURSIVE ScopeFeCount(_)
ScopeFeCount(sentences) ==
    IF sentences = <<>> THEN 0
    ELSE Len(SelectSeq(Head(sentences).frames, LAMBDA f : f.scope.fe))
         + ScopeFeCount(Tail(sentences))

\* zip(gold_frames, test_frames) of the k-th sentence pair
\* mutant of PairCount: only the first frame pair of a sentence is scored
PairCount_first_only(k) ==
    Min(1, Min(Len(NegationFramesOf(sentences_gold[k])),
               Len(NegationFramesOf(sentences_test[k]))))

PairCount(k) ==
    Min(Len(NegationFramesOf(sentences_gold[k])), Len(NegationFramesOf(sentences_test[k])))

\* mutant of CountsDiffer: only a longer gold file is a mismatch
CountsDiffer_gold_longer(gold, test) == Len(gold) > Len(test)

\* line 140
CountsDiffer(gold, test) == Len(gold) # Len(test)

ZeroScores ==
    [target_f1 |-> IntZero, focus_f1 |-> IntZero, negated_f1 |-> IntZero,
     scope_precision |-> IntZero, scope_recall |-> IntZero, scope_f1 |-> IntZero,
     scope_jaccard |-> IntZero]
ZeroCounts ==
    [sentence_count |-> 0, gold_frames_count |-> 0, test_frames_count |-> 0,
     scope_gold_frames_count |-> 0, scope_test_frames_count |-> 0]
UnboundWords ==
    [target_gold_word |-> Unbound, target_test_word |-> Unbound,
     focus_gold_word |-> Unbound, focus_test_word |-> Unbound,
     negated_gold_word |-> Unbound, negated_test_word |-> Unbound]
NoLists ==
    [target_gold |-> <<>>, target_test |-> <<>>, focus_gold |-> <<>>, focus_test |-> <<>>,
     negated_gold |-> <<>>, negated_test |-> <<>>, scope_gold |-> <<>>, scope_test |-> <<>>,
     scope_gold_normalized |-> <<>>, scope_test_normalized |-> <<>>, pair |-> ZeroScores]

InitEvaluate(Gold, Test) ==
    /\ sentences_gold \in Gold
    /\ sentences_test \in Test
    /\ s_idx = 0 /\ f_idx = 0
    /\ scores = ZeroScores /\ counts = ZeroCounts
    /\ words = UnboundWords /\ lists = NoLists
    /\ output = <<>>
    /\ epc = "start"
    /\ AnnotateIdle

\* lines 94-142: the sums and counters, and the sentence count check
CheckCounts ==
    /\ epc = "start"
    /\ scores' = ZeroScores
    /\ counts' = [ZeroCounts EXCEPT
                    !.scope_gold_frames_count = ScopeFeCount(sentences_gold),
                    !.scope_test_frames_count = ScopeFeCount(sentences_test)]
    /\ IF CountsDiffer(sentences_gold, sentences_test)
       THEN /\ output' = <<[kind |-> "mismatch", gold |-> Len(sentences_gold),
                            test |-> Len(sentences_test)]>>
            /\ epc' = "mismatch"
       ELSE /\ output' = output
            /\ epc' = "loop"
    /\ UNCHANGED <<sentences_gold, sentences_test, s_idx, f_idx, words, lists, annvars>>

\* lines 145-153: the next sentence pair and its frame counts
NextSentence ==
    /\ epc = "loop"
    /\ s_idx < Len(sentences_gold)
    /\ s_idx > 0 => f_idx = PairCount(s_idx)
    /\ s_idx' = s_idx + 1
    /\ f_idx' = 0
    /\ counts' = [counts EXCEPT
            !.sentence_count = @ + 1,
            !.gold_frames_count = @ + Len(NegationFramesOf(sentences_gold[s_idx + 1])),
            !.test_frames_count = @ + Len(NegationFramesOf(sentences_test[s_idx + 1]))]
    /\ UNCHANGED <<sentences_gold, sentences_test, scores, words, lists, output, epc, annvars>>

\* lines 155-498: one frame pair.  An exception leaves evaluate; sklearn
\* raises ValueError for vectors of different length.  Each local of the
\* loop body is bound once, in the order the body assigns it.
ScorePair ==
    /\ epc = "loop"
    /\ s_idx > 0
    /\ f_idx < PairCount(s_idx)
    /\ \E s_gold \in {sentences_gold[s_idx]}, s_test \in {sentences_test[s_idx]} :
       \E gold \in {NegationFramesOf(s_gold)[f_idx + 1]},
          test \in {NegationFramesOf(s_test)[f_idx + 1]} :
       \E t \in {TargetWords(s_gold, s_test, gold, test, words)},
          f \in {FocusWords(s_gold, s_test, gold, test, words)},
          n \in {NegatedWords(s_gold, s_test, gold, test)},
          sc \in {ScopeLists(s_gold, s_test, gold, test)} :
           IF ~(t.ok /\ f.ok /\ n.ok /\ sc.ok)
           THEN /\ epc' = "crashed"
                /\ UNCHANGED <<f_idx, scores, words, lists>>
           ELSE \E sorted_gold \in {Sorted(flatten(sc.gold))},
                   sorted_test \in {Sorted(flatten(sc.test))} :
                \E sorted_scope_test_list \in ScopeTestOutcomes(sorted_gold, sorted_test),
                   sorted_scope_gold_list \in {ScopeGoldOutcome(sorted_gold, sorted_test)} :
                \E scope_gold_normalized \in {GoldNormalized(sorted_scope_gold_list)},
                   scope_test_normalized \in
                       {ScopeTestNormalized(sorted_scope_gold_list, sorted_scope_test_list)} :
                IF Len(sorted_scope_gold_list) # Len(sorted_scope_test_list)
                THEN /\ epc' = "crashed"
                     /\ lists' = [lists EXCEPT
                                    !.scope_gold = sorted_scope_gold_list,
                                    !.scope_test = sorted_scope_test_list,
                                    !.scope_gold_normalized = scope_gold_normalized,
                                    !.scope_test_normalized = scope_test_normalized]
                     /\ UNCHANGED <<f_idx, scores, words>>
                ELSE \E pair \in
                        {[target_f1 |-> f1_score(GoldNormalized(<<t.gold>>),
                                                 TestNormalized(<<t.gold>>, <<t.test>>)),
                          focus_f1 |-> f1_score(GoldNormalized(<<f.gold>>),
                                                TestNormalized(<<f.gold>>, <<f.test>>)),
                          negated_f1 |-> f1_score(GoldNormalized(<<n.gold>>),
                                                  TestNormalized(<<n.gold>>, <<n.test>>)),
                          scope_precision |->
                             precision_score(scope_gold_normalized, scope_test_normalized),
                          scope_recall |->
                             recall_score(scope_gold_normalized, scope_test_normalized),
                          scope_f1 |-> f1_score(scope_gold_normalized, scope_test_normalized),
                          scope_jaccard |->
                             jaccard_similarity_score(sorted_scope_gold_list,
                                                      sorted_scope_test_list)]} :
                     /\ words' = [target_gold_word |-> t.gold, target_test_word |-> t.test,
                                  focus_gold_word |-> f.gold, focus_test_word |-> f.test,
                                  negated_gold_word |-> n.gold, negated_test_word |-> n.test]
                     /\ lists' = [target_gold |-> <<t.gold>>, target_test |-> <<t.test>>,
                                  focus_gold |-> <<f.gold>>, focus_test |-> <<f.test>>,
                                  negated_gold |-> <<n.gold>>, negated_test |-> <<n.test>>,
                                  scope_gold |-> sorted_scope_gold_list,
                                  scope_test |-> sorted_scope_test_list,
                                  scope_gold_normalized |-> scope_gold_normalized,
                                  scope_test_normalized |-> scope_test_normalized,
                                  pair |-> pair]
                     /\ scores' = [target_f1 |-> FAdd(scores.target_f1, pair.target_f1),
                                   focus_f1 |-> FAdd(scores.focus_f1, pair.focus_f1),
                                   negated_f1 |-> FAdd(scores.negated_f1, pair.negated_f1),
                                   scope_precision |->
                                      FAdd(scores.scope_precision, pair.scope_precision),
                                   scope_recall |->
                                      FAdd(scores.scope_recall, pair.scope_recall),
                                   scope_f1 |-> FAdd(scores.scope_f1, pair.scope_f1),
                                   scope_jaccard |->
                                      FAdd(scores.scope_jaccard, pair.scope_jaccard)]
                     /\ f_idx' = f_idx + 1
                     /\ epc' = epc
    /\ UNCHANGED <<sentences_gold, sentences_test, s_idx, counts, output, annvars>>

\* lines 501-529: the report; ZeroDivisionError leaves evaluate after what
\* has been printed
Report ==
    /\ epc = "loop"
    /\ s_idx = Len(sentences_gold)
    /\ s_idx > 0 => f_idx = PairCount(s_idx)
    /\ LET totals == [kind |-> "totals", sentences |-> counts.sentence_count,
                      gold |-> counts.gold_frames_count, test |-> counts.test_frames_count]
           target_f1 == FDivInt(scores.target_f1, counts.gold_frames_count)
           focus_f1 == FDivInt(scores.focus_f1, counts.gold_frames_count)
           negated_f1 == FDivInt(scores.negated_f1, counts.gold_frames_count)
           scope_precision == FDivInt(scores.scope_precision, counts.scope_test_frames_count)
           scope_recall == FDivInt(scores.scope_recall, counts.scope_test_frames_count)
           scope_f1 == FDivInt(scores.scope_f1, counts.scope_test_frames_count)
           scope_jaccard == FDivInt(scores.scope_jaccard, counts.scope_test_frames_count)
           roles == <<[kind |-> "cuewords", f1 |-> target_f1.v],
                      [kind |-> "focus", f1 |-> focus_f1.v],
                      [kind |-> "negated", f1 |-> negated_f1.v],
                      [kind |-> "scope frames", gold |-> counts.scope_gold_frames_count,
                       test |-> counts.scope_test_frames_count]>>
       IN  IF ~target_f1.ok
           THEN /\ output' = <<totals>>
                /\ epc' = "crashed"
           ELSE IF ~(scope_precision.ok /\ scope_recall.ok /\ scope_f1.ok /\ scope_jaccard.ok)
           THEN /\ output' = <<totals>> \o roles
                /\ epc' = "crashed"
           ELSE /\ output' = <<totals>> \o roles \o
                        <<[kind |-> "scope", precision |-> scope_precision.v,
                           recall |-> scope_recall.v, f1 |-> scope_f1.v,
                           jaccard |-> scope_jaccard.v]>>
                /\ epc' = "done"
    /\ UNCHANGED <<sentences_gold, sentences_test, s_idx, f_idx, scores, counts, words,
                   lists, annvars>>

NextEvaluate ==
    \/ CheckCounts
    \/ NextSentence
    \/ ScorePair
    \/ Report

\* the corpora the evaluator is run on: two syntax graphs over the same ids
\* (terminals t1..t4, nonterminals n1 and n2), and Negation frames with and
\* without each role
Terminal(word) == [hasword |-> TRUE, word |-> word, edges |-> <<>>]
Nonterminal(edges) == [hasword |-> FALSE, word |-> <<>>, edges |-> edges]

GraphA ==
    [t1 |-> Terminal(<<"a">>), t2 |-> Terminal(<<"b">>), t3 |-> Terminal(<<"K">>),
     t4 |-> Terminal(<<"a">>),
     n1 |-> Nonterminal(<<"t1", "t2">>), n2 |-> Nonterminal(<<"n1", "t3">>)]
GraphB ==
    [GraphA EXCEPT !.n1 = Nonterminal(<<"t3">>), !.n2 = Nonterminal(<<"n1", "t1">>)]

Fe(nodes) == [fe |-> TRUE, nodes |-> nodes]
Frame(target, focus, negated, scope) ==
    [name |-> NEGATION_FRAME_NAME, id |-> 1, target |-> target, focus |-> focus,
     negated |-> negated, scope |-> scope]

F_full == Frame(Fe(<<"t1">>), Fe(<<"t2">>), Fe(<<"t3">>), Fe(<<"t1", "t2", "t3">>))
F_graph == Frame(Fe(<<"t1">>), Fe(<<"t2">>), Fe(<<"t3">>), Fe(<<"n2">>))
F_nonegated == Frame(Fe(<<"t1">>), Fe(<<"t2">>), NoFe, Fe(<<"t2">>))
F_nofocus == Frame(Fe(<<"t1">>), NoFe, Fe(<<"t3">>), Fe(<<"t2">>))
F_noscope == Frame(Fe(<<"t1">>), Fe(<<"t2">>), Fe(<<"t3">>), NoFe)
F_target == Frame(Fe(<<"t1">>), NoFe, NoFe, NoFe)
F_twice == Frame(Fe(<<"t1">>), Fe(<<"t2">>), Fe(<<"t3">>), Fe(<<"t1", "t4">>))
F_emptyscope == Frame(Fe(<<"t1">>), Fe(<<"t2">>), Fe(<<"t3">>), EmptyFe)
F_other == Frame(Fe(<<"t2">>), Fe(<<"t1">>), Fe(<<"t2">>), Fe(<<"t4", "t3">>))
\* what create_target_focus_scope writes for a cue with nothing around it
F_annotated == Frame(Fe(<<"t1">>), EmptyFe, EmptyFe, EmptyFe)

Sentence(nodes, fs) == [nodes |-> nodes, frames |-> fs]

MaxSents == 2

Corpora(S) == UNION {[1..n -> S] : n \in 0..MaxSents}

\* a corpus evaluated against itself
SameSentences ==
    {Sentence(GraphA, fs) : fs \in
        {<<>>, <<F_full>>, <<F_graph>>, <<F_nonegated>>, <<F_nofocus>>, <<F_noscope>>,
         <<F_target>>, <<F_twice>>, <<F_emptyscope>>, <<F_annotated>>,
         <<F_full, F_nonegated>>, <<F_full, F_target>>, <<OtherFrame, F_full>>}}

InitSame ==
    /\ InitEvaluate(Corpora(SameSentences), Corpora(SameSentences))
    /\ sentences_test = sentences_gold
SpecSame == InitSame /\ [][NextEvaluate]_vars

\* a gold corpus and a test corpus chosen independently
GoldSentences ==
    {Sentence(GraphA, fs) : fs \in
        {<<>>, <<F_full>>, <<F_graph>>, <<F_noscope>>, <<F_full, F_nonegated>>}}
TestSentences ==
    {Sentence(GraphA, fs) : fs \in {<<>>, <<F_full>>, <<F_emptyscope>>, <<F_noscope>>, <<F_other>>}}
    \cup {Sentence(GraphB, <<F_graph, F_full>>)}

InitEval == InitEvaluate(Corpora(GoldSentences), Corpora(TestSentences))
SpecEval == InitEval /\ [][NextEvaluate]_vars

\* evaluate runs its statements in order: once the two files are parsed the
\* count check is reached
SpecEvalFair == SpecEval /\ WF_vars(CheckCounts)

\* files with references that lead nowhere: GraphC has the nonterminals n3
\* and n4 whose edges form a cycle, and no element has the id t9
GraphC ==
    [t1 |-> Terminal(<<"a">>), t2 |-> Terminal(<<"b">>), t3 |-> Terminal(<<"K">>),
     t4 |-> Terminal(<<"a">>),
     n1 |-> Nonterminal(<<"t1", "t2">>), n2 |-> Nonterminal(<<"n1", "t3">>),
     n3 |-> Nonterminal(<<"t1", "n4">>), n4 |-> Nonterminal(<<"n3">>)]

F_dangling_target == Frame(Fe(<<"t9">>), Fe(<<"t2">>), Fe(<<"t3">>), Fe(<<"t1">>))
F_dangling_focus == Frame(Fe(<<"t1">>), Fe(<<"t9">>), Fe(<<"t3">>), Fe(<<"t1">>))
F_dangling_negated == Frame(Fe(<<"t1">>), Fe(<<"t2">>), Fe(<<"t9">>), Fe(<<"t1">>))
F_dangling_scope == Frame(Fe(<<"t1">>), Fe(<<"t2">>), Fe(<<"t3">>), Fe(<<"t1", "t9">>))
F_cyclic == Frame(Fe(<<"t1">>), Fe(<<"t2">>), Fe(<<"t3">>), Fe(<<"n3">>))

BrokenSentences ==
    {Sentence(GraphC, fs) : fs \in
        {<<F_full>>, <<F_dangling_target>>, <<F_dangling_focus>>, <<F_dangling_negated>>,
         <<F_dangling_scope>>, <<F_cyclic>>}}

InitBroken == InitEvaluate(Corpora(BrokenSentences), Corpora(BrokenSentences))
SpecBroken == InitBroken /\ [][NextEvaluate]_vars

----------------------------------------------------------------------------
(* Claims about the evaluator.                                             *)

\* a frame pair of the current sentence pair has been scored, and it is the
\* pair f_idx
PairScored == epc \in {"loop", "done"} /\ s_idx > 0 /\ f_idx > 0
ScoredGold == NegationFramesOf(sentences_gold[s_idx])[f_idx]
ScoredTest == NegationFramesOf(sentences_test[s_idx])[f_idx]

\* the Scope word lists of the scored pair as line 423-424 leave them
RawScope ==
    LET sc == ScopeLists(sentences_gold[s_idx], sentences_test[s_idx], ScoredGold, ScoredTest)
    IN  [gold |-> Sorted(flatten(sc.gold)), test |-> Sorted(flatten(sc.test))]

\* C4: when the gold and the predicted corpus are identical, every scored
\* frame pair adds 1.0 to every sum, and every average that is reported is
\* 1.0.
C4_IdenticalScoresOne ==
    sentences_gold = sentences_test =>
        /\ PairScored => \A r \in DOMAIN lists.pair : lists.pair[r] = One
        /\ epc = "done" =>
              /\ \A k \in 2..4 : output[k].f1 = One
              /\ output[6] = [kind |-> "scope", precision |-> One, recall |-> One,
                              f1 |-> One, jaccard |-> One]

\* C5: before binarization the gold and the predicted Scope word lists have
\* the same length, the length of the longer one, the shorter one being
\* followed by empty strings; and a predicted Scope without words against a
\* gold Scope of three words gives a predicted list of length 3 and a
\* Jaccard score of 0.0 for the pair.
C5_ScopePadding ==
    /\ Len(lists.scope_gold) = Len(lists.scope_test)
    /\ PairScored =>
          LET raw == RawScope
              n == Max(Len(raw.gold), Len(raw.test))
          IN  /\ Len(lists.scope_gold) = n
              /\ Len(lists.scope_test) = n
              /\ Len(raw.gold) # Len(raw.test) =>
                    \A k \in 1..n :
                        /\ lists.scope_gold[k] =
                              IF k <= Len(raw.gold) THEN raw.gold[k] ELSE <<>>
                        /\ lists.scope_test[k] =
                              IF k <= Len(raw.test) THEN raw.test[k] ELSE <<>>
              /\ (Len(raw.gold) = 3 /\ ScoredTest.scope.nodes = <<>>) =>
                    /\ Len(lists.scope_test_normalized) = 3
                    /\ lists.pair.scope_jaccard = Zero

\* a three-word gold Scope has been scored against a Scope without fenodes
C5_Witness ==
    /\ PairScored
    /\ Len(RawScope.gold) = 3
    /\ ScoredTest.scope = EmptyFe
    /\ lists.scope_test = <<<<>>, <<>>, <<>>>>
    /\ lists.pair.scope_jaccard = Zero

\* C6: when the gold file has N sentences and the predicted file M # N,
\* evaluate ends in the mismatch error that prints both counts, whatever the
\* sentences hold, with no frame pair scored and no average reported.
C6_Mismatch ==
    /\ [](Len(sentences_gold) # Len(sentences_test) =>
            /\ epc \in {"start", "mismatch"}
            /\ s_idx = 0 /\ f_idx = 0
            /\ \A r \in DOMAIN scores : scores[r] = IntZero
            /\ lists = NoLists
            /\ output = IF epc = "mismatch"
                        THEN <<[kind |-> "mismatch", gold |-> Len(sentences_gold),
                                test |-> Len(sentences_test)]>>
                        ELSE <<>>)
    /\ (Len(sentences_gold) # Len(sentences_test)) ~> (epc = "mismatch")

\* the error has been raised for a predicted file that is longer than a gold
\* file with frames
C6_Witness ==
    /\ epc = "mismatch"
    /\ Len(sentences_gold) < Len(sentences_test)
    /\ \E k \in DOMAIN sentences_gold : sentences_gold[k].frames # <<>>
    /\ output[1].gold = Len(sentences_gold)
    /\ output[1].test = Len(sentences_test)

----------------------------------------------------------------------------
(* Further properties of the annotator *)

\* C11: no step of the annotator adds, removes or reorders terminals or
\* changes the id, word, lemma or POS of one: only the frames and the
\* splitwords of the sentence change.
C11_TerminalsUntouched ==
    [][terminals' = terminals /\ cueword_list' = cueword_list]_vars

\* C11 witness: a sentence whose first word has a capital letter is written
\* with a splitword Frame for it, the word as it was read
C11_Witness ==
    /\ pc = "written"
    /\ terminals[1].word = W_Unklar
    /\ SplitFramesOf(1) # {}
    /\ Len(splitwords) >= 1

IsPrefix(a, b) == Len(a) <= Len(b) /\ \A k \in 1..Len(a) : a[k] = b[k]

\* C12: after a call of the loop body that completes, every Negation Frame of
\* the sentence has a Target with exactly one reference, and the frames that
\* were there before the call are still there, unchanged and in place: frames
\* are only added.
C12_TargetAndGrowth ==
    [][ pc' # "crashed" =>
          /\ IsPrefix(frames, frames')
          /\ \A k \in NegationFrames(frames') :
                frames'[k].target.fe /\ Len(frames'[k].target.nodes) = 1 ]_vars

\* C12 witness: the sentence held a frame of another kind, the first terminal
\* got a splitword Frame and the call on the second terminal has added one more
C12_Witness ==
    /\ pc = "cuewords" /\ t_idx = 2
    /\ Len(frames) >= 3
    /\ frames[1].name # NEGATION_FRAME_NAME
    /\ SplitFramesOf(1) # {}
    /\ SplitFramesOf(2) # {}

----------------------------------------------------------------------------
(* Further properties of the evaluator *)

\* an exception has ended evaluate inside the loop over the frame pairs,
\* while it was scoring the pair after f_idx
ScoringCrashed == epc = "crashed" /\ output = <<>> /\ s_idx > 0
PendingGold == NegationFramesOf(sentences_gold[s_idx])[f_idx + 1]
PendingTest == NegationFramesOf(sentences_test[s_idx])[f_idx + 1]

SeqElems(q) == {q[k] : k \in 1..Len(q)}

\* every reference of frame fr leads to a word of sentence s: a Target, Focus
\* or Negated reference to a terminal or part, a Scope reference to one or to
\* a nonterminal that resolves
RefsResolve(s, fr) ==
    /\ \A id \in SeqElems(fr.target.nodes) \cup SeqElems(fr.focus.nodes)
                 \cup SeqElems(fr.negated.nodes) :
            id \in DOMAIN s.nodes /\ s.nodes[id].hasword
    /\ ScopeGoldItems(s, fr.scope.nodes, <<>>).ok

\* C13: a frame pair in which a role is missing on one side or on both is
\* scored without an error, the missing side giving the empty word (for
\* Scope: no word), not a word of a pair scored before.
C13_MissingRoleEmpty ==
    /\ ScoringCrashed =>
          ~(/\ RefsResolve(sentences_gold[s_idx], PendingGold)
            /\ RefsResolve(sentences_test[s_idx], PendingTest))
    /\ PairScored =>
          /\ ~ScoredGold.target.fe => lists.target_gold = << <<>> >>
          /\ ~ScoredTest.target.fe => lists.target_test = << <<>> >>
          /\ ~ScoredGold.focus.fe => lists.focus_gold = << <<>> >>
          /\ ~ScoredTest.focus.fe => lists.focus_test = << <<>> >>
          /\ ~ScoredGold.negated.fe => lists.negated_gold = << <<>> >>
          /\ ~ScoredTest.negated.fe => lists.negated_test = << <<>> >>
          /\ ~ScoredGold.scope.fe => \A w \in SeqElems(lists.scope_gold) : w = <<>>
          /\ ~ScoredTest.scope.fe => \A w \in SeqElems(lists.scope_test) : w = <<>>

\* the ids a role of frame fr refers to
RoleRefs(fe) == SeqElems(fe.nodes)
AllRefs(fr) ==
    RoleRefs(fr.target) \cup RoleRefs(fr.focus) \cup RoleRefs(fr.negated) \cup RoleRefs(fr.scope)
Dangling(s, fe) == \E id \in RoleRefs(fe) : id \notin DOMAIN s.nodes
HasDangling(s, fr) == \E id \in AllRefs(fr) : id \notin DOMAIN s.nodes
AllRoles(fr) ==
    \A fe \in {fr.target, fr.focus, fr.negated, fr.scope} : fe.fe /\ fe.nodes # <<>>

\* the nodes of s below the ids in S, by at most n further edges
RECURSIVE Below(_, _, _)
Below(s, S, n) ==
    LET next == UNION {SeqElems(s.nodes[id].edges) : id \in S \cap DOMAIN s.nodes}
    IN  IF n = 0 THEN {} ELSE next \cup Below(s, next, n - 1)
OnCycle(s, id) == id \in Below(s, {id}, Cardinality(DOMAIN s.nodes))
\* a Scope reference of fr leads into a cycle of nonterminals of s
CyclicRef(s, fr) ==
    \E id \in RoleRefs(fr.scope) :
        \E m \in {id} \cup Below(s, {id}, Cardinality(DOMAIN s.nodes)) : OnCycle(s, m)

\* C14: an idref of a Target, Focus, Negated or Scope (gold or predicted)
\* that matches no element contributes the empty word, and the run goes on:
\* a dangling reference never ends evaluate.
C14_DanglingRecovered ==
    /\ ( /\ ScoringCrashed
         /\ AllRoles(PendingGold) /\ AllRoles(PendingTest)
         /\ ~CyclicRef(sentences_gold[s_idx], PendingGold)
         /\ ~CyclicRef(sentences_test[s_idx], PendingTest) )
       => /\ ~HasDangling(sentences_gold[s_idx], PendingGold)
          /\ ~HasDangling(sentences_test[s_idx], PendingTest)
    /\ PairScored =>
          /\ Dangling(sentences_gold[s_idx], ScoredGold.focus)
                => lists.focus_gold = << <<>> >>
          /\ Dangling(sentences_test[s_idx], ScoredTest.focus)
                => lists.focus_test = << <<>> >>
          /\ Dangling(sentences_gold[s_idx], ScoredGold.negated)
                => lists.negated_gold = << <<>> >>
          /\ Dangling(sentences_test[s_idx], ScoredTest.negated)
                => lists.negated_test = << <<>> >>
          /\ Dangling(sentences_test[s_idx], ScoredTest.target)
                => lists.target_test = << <<>> >>

\* C17: resolving a Scope reference into a cycle of nonterminals ends as an
\* unresolved reference, which is recovered from: it does not end evaluate.
C17_CycleRecovered ==
    ( /\ ScoringCrashed
      /\ AllRoles(PendingGold) /\ AllRoles(PendingTest)
      /\ ~HasDangling(sentences_gold[s_idx], PendingGold)
      /\ ~HasDangling(sentences_test[s_idx], PendingTest) )
    => /\ ~CyclicRef(sentences_gold[s_idx], PendingGold)
       /\ ~CyclicRef(sentences_test[s_idx], PendingTest)

\* the report has been reached: its first lines are printed
Reported == output # <<>> /\ output[1].kind = "totals"
\* what a division by zero leaves instead of an average
ZeroOrNotANumber == {IntZero, Zero, NaN, Inf}

\* C15: when the corpus has no gold frames, or no frames with a Scope, the
\* report is completed without an error and gives the affected averages as
\* undefined, not as 0, NaN or infinity.
C15_UndefinedAverages ==
    ( /\ Reported
      /\ counts.gold_frames_count = 0 \/ counts.scope_test_frames_count = 0 )
    => /\ epc = "done"
       /\ counts.gold_frames_count = 0 =>
             \A k \in 2..4 : output[k].f1 \notin ZeroOrNotANumber
       /\ counts.scope_test_frames_count = 0 =>
             /\ output[6].precision \notin ZeroOrNotANumber
             /\ output[6].recall \notin ZeroOrNotANumber
             /\ output[6].f1 \notin ZeroOrNotANumber
             /\ output[6].jaccard \notin ZeroOrNotANumber

\* the words of the terminals that node id of sentence s dominates, in edge
\* order (id itself when it is a terminal), lowercased or as written
RECURSIVE Dominated(_, _, _)
RECURSIVE DominatedBy(_, _, _)
DominatedBy(s, ids, lowercased) ==
    IF ids = <<>> THEN <<>>
    ELSE Dominated(s, Head(ids), lowercased) \o DominatedBy(s, Tail(ids), lowercased)
Dominated(s, id, lowercased) ==
    IF s.nodes[id].hasword
    THEN <<IF lowercased THEN Lower(s.nodes[id].word) ELSE s.nodes[id].word>>
    ELSE DominatedBy(s, s.nodes[id].edges, lowercased)

\* the gold Scope of the scored pair, resolved and flattened (before it is
\* sorted)
ResolvedGoldScope ==
    flatten(ScopeGoldItems(sentences_gold[s_idx], ScoredGold.scope.nodes, <<>>).items)

\* C16: a gold Scope reference that is resolved gives the lowercased word of
\* a Terminal and, for a Nonterminal, the results of its edges in edge
\* order: flattened, the lowercased words of the Terminals the node
\* dominates, in edge order.
C16_ResolveLowercased ==
    (PairScored /\ ScoredGold.scope.fe) =>
        ResolvedGoldScope = DominatedBy(sentences_gold[s_idx], ScoredGold.scope.nodes, TRUE)
C16_Witness ==
    /\ PairScored
    /\ ScoredGold = F_graph
    /\ ResolvedGoldScope = << <<"a">>, <<"b">>, <<"k">> >>
    /\ IsPrefix(ResolvedGoldScope, lists.scope_gold)
\* C16 as stated: the flattened result is exactly the words of the
\* dominated Terminals
C16_ResolveExactWords ==
    (PairScored /\ ScoredGold.scope.fe) =>
        ResolvedGoldScope = DominatedBy(sentences_gold[s_idx], ScoredGold.scope.nodes, FALSE)

\* rule 1 and one of the suffix rules 3, 4, 5 fire on the cue-listed
\* terminal i
TwoRulesFire(i) ==
    LET w == Lower(terminals[i].word)
    IN  /\ InList(i)
        /\ StartsWith(w, S_un)
        /\ terminals[i].pos \in {"ADJA", "ADJD", "NN", "VVFIN", "VVPP", "VVINF"}
        /\ SplitRulesFiring(i, TRUE) = 2
        /\ ~StartsWith(w, S_ausserordentlich)

\* C18: when rule 1 and one of rules 3, 4, 5 fire on a cue-listed token, the
\* call completes and adds two Frames and two SplitWordPart pairs: the first
\* Frame has Target on the first part of the first pair ('un') and Focus,
\* Negated and Scope on its second part, the second Frame has Target on the
\* second part of the second pair (the suffix) and the three on its first.
C18_TwoRulesTwoFrames ==
    [][ (/\ pc = "splitwords"
         /\ t_idx <= Len(terminals)
         /\ TwoRulesFire(t_idx))
        => /\ pc' = "cuewords"
           /\ Len(frames') = Len(frames) + 2
           /\ Len(splitwords') = Len(splitwords) + 2
           /\ \A j \in 1..2 :
                LET fr == frames'[Len(frames) + j]
                    sw == splitwords'[Len(splitwords) + j]
                    marker == sw.parts[j]
                    stem == sw.parts[3 - j]
                IN  /\ sw.idref = t_idx
                    /\ sw.parts[1].word \o sw.parts[2].word = Lower(terminals[t_idx].word)
                    /\ fr.target.nodes = <<marker.id>>
                    /\ fr.focus.nodes = <<stem.id>>
                    /\ fr.negated.nodes = <<stem.id>>
                    /\ fr.scope.nodes = <<stem.id>> ]_vars

\* the Scope references of frame k to terminals right of its cue
RightPart(k) == SelectSeq(frames[k].scope.nodes, LAMBDA r : r[1] > CueOf(k))

\* the rightward scan from sibling j as the comma rule describes it
RECURSIVE ScanRight(_)
ScanRight(j) ==
    IF j > Len(terminals) THEN <<>>
    ELSE IF \/ terminals[j].pos \in {"$.", "$*LRB*"}
            \/ terminals[j].lemma \in {L_dash, L_und}
         THEN <<>>
    ELSE IF terminals[j].pos = "$,"
         THEN IF /\ j < Len(terminals)
                 /\ terminals[j + 1].pos \in {"KOUS", "ADV", "ART", "KOKOM", "APPR"}
              THEN ScanRight(j + 1)
              ELSE <<>>
    ELSE <<TRef(j)>> \o ScanRight(j + 1)

\* C19: in the rightward Scope scan a comma followed by a sibling tagged
\* KOUS, ADV, ART, KOKOM or APPR is passed over (the comma is not in Scope,
\* the scan goes on with the sibling after it); any other comma, the comma
\* that is the last terminal included, ends the scan, and the Frame is
\* completed: no call on a cue ends in an exception.
C19_CommaScan ==
    /\ pc # "crashed"
    /\ \A k \in CueFrames : RightPart(k) = ScanRight(CueOf(k) + 1)

\* C20: in the Frame of a cue 'nicht' tagged PTKNEG, Focus is the first next
\* sibling tagged PIS, VVPP, ADJD, ADV, PPER, VVINF, ADJ, ADJA, VMFIN or
\* PPOSAT if there is one, else the nearest previous sibling tagged VAFIN if
\* there is one, and only if there is neither the first next sibling tagged
\* VMFIN, VVFIN or VVPP.
C20_NichtFocusOrder ==
    pc # "crashed" =>
    \A k \in CueFrames :
        LET i == CueOf(k)
            right == {j \in (i + 1)..Len(terminals) : terminals[j].pos \in
                        {"PIS", "VVPP", "ADJD", "ADV", "PPER", "VVINF", "ADJ", "ADJA",
                         "VMFIN", "PPOSAT"}}
            left == {j \in 1..(i - 1) : terminals[j].pos = "VAFIN"}
            fallback == {j \in (i + 1)..Len(terminals) : terminals[j].pos \in
                            {"VMFIN", "VVFIN", "VVPP"}}
        IN  (Lower(terminals[i].word) = S_nicht /\ terminals[i].pos = "PTKNEG") =>
                frames[k].focus.nodes =
                    IF right # {} THEN <<TRef(SetMin(right))>>
                    ELSE IF left # {} THEN <<TRef(SetMax(left))>>
                    ELSE IF fallback # {} THEN <<TRef(SetMin(fallback))>>
                    ELSE <<>>

----------------------------------------------------------------------------
(* Properties of the rule sets *)

\* C21: the Frame of a cue whose word is exactly 'nein' has no Focus
\* reference, whatever the tags of the terminals around it.
C21_NeinNoFocus ==
    \A k \in CueFrames :
        Lower(terminals[CueOf(k)].word) = S_nein => frames[k].focus.nodes = <<>>
\* C21 witness: [hat(VAFIN), Nein, kam(VVFIN)] is written with a Frame on
\* 'Nein' whose Focus is empty
C21_Witness ==
    /\ pc = "written"
    /\ Len(terminals) = 3
    /\ terminals[1].pos = "VAFIN"
    /\ terminals[2].word = W_Nein
    /\ terminals[3].pos = "VVFIN"
    /\ \E k \in CueFrames : CueOf(k) = 2 /\ frames[k].focus = EmptyFe

\* the Target references of the Frames that a rule set, leaving st, has
\* added to the frames of the sentence
NewTargets(st) ==
    {st.frames[k].target.nodes : k \in (Len(frames) + 1)..Len(st.frames)}

\* the current terminal matches a known-cue trigger that the guess rules do
\* not have, and no trigger of the guess rules
OnlyKnownTrigger ==
    /\ \/ EndsWith(t_word, S_los) \/ EndsWith(t_word, S_lose) \/ EndsWith(t_word, S_frei)
       \/ StartsWith(t_word, S_kein) \/ StartsWith(t_word, S_nein)
    /\ ~StartsWith(t_word, S_un)
    /\ ~StartsWith(t_word, S_nie) /\ ~StartsWith(t_word, S_nic)

\* C22: whenever a rule set is about to run on a terminal, every Frame the
\* guess rules would create for it has a Target that a Frame created by the
\* known-cue rules for it would have too; and a terminal that only matches
\* the suffixes 'los', 'lose', 'frei' or the prefixes 'kein', 'nein' gets a
\* Frame from the known-cue rules and none from the guess rules.
C22_GuessSubset ==
    (pc \in {"splitwords", "cuewords"} /\ t_idx <= Len(terminals)) =>
        LET guess == IF pc = "splitwords"
                     THEN guess_splitwords(St, t_idx, t_word, t_pos)
                     ELSE guess_cuewords(St, terminals, t_idx, t_word, t_pos)
            known == IF pc = "splitwords"
                     THEN detect_splitwords(St, t_idx, t_word, t_pos)
                     ELSE detect_cuewords(St, terminals, t_idx, t_word, t_pos)
        IN  /\ NewTargets(guess) \subseteq NewTargets(known)
            /\ OnlyKnownTrigger =>
                  /\ NewTargets(guess) = {}
                  /\ NewTargets(detect_splitwords(St, t_idx, t_word, t_pos))
                       \cup NewTargets(detect_cuewords(St, terminals, t_idx, t_word, t_pos))
                       # {}
\* C22 witness: with an empty cue list the guess rules have made a Frame
\* for 'Unklar' (ADJD) and have passed over 'zweifellos'
C22_Witness ==
    /\ pc = "cuewords" /\ t_idx = 2
    /\ cueword_list = {}
    /\ terminals[1].word = W_Unklar
    /\ terminals[2].word = W_zweifellos
    /\ SplitFramesOf(1) # {}
    /\ SplitFramesOf(2) = {}

\* the Negation frames that refer to a terminal, and the terminal they were
\* created for
TargetedFrames ==
    {k \in NegationFrames(frames) : frames[k].target.nodes # <<>>}
TerminalOf(k) == frames[k].target.nodes[1][1]
IsCueFrame(k) == frames[k].target.nodes[1][2] = "t"

\* Frame index order is creation order
FramesInOrder ==
    \A k, l \in TargetedFrames :
        k < l => /\ TerminalOf(k) <= TerminalOf(l)
                 /\ TerminalOf(k) = TerminalOf(l) => ~(IsCueFrame(k) /\ ~IsCueFrame(l))

\* C23: the terminals are gone through from left to right, one at a time,
\* the splitword rules of a terminal before its whole-word rules; so the
\* Frames of an earlier terminal have smaller indices than those of a later
\* one, and a terminal's splitword Frame precedes its whole-word Frame.
C23_CreationOrder ==
    [][ /\ t_idx' \in {t_idx, t_idx + 1}
        /\ (pc = "splitwords" /\ t_idx <= Len(terminals)) =>
              (t_idx' = t_idx /\ pc' \in {"cuewords", "crashed"})
        /\ pc = "cuewords" => pc' \in {"splitwords", "crashed"}
        /\ FramesInOrder' ]_vars
\* C23 witness: [niveaulos, nicht], both in the cue list, is written with a
\* splitword Frame and then a whole-word Frame for 'niveaulos', followed by
\* the Frame of 'nicht'
C23_Witness ==
    /\ pc = "written"
    /\ Len(terminals) = 2
    /\ terminals[1].word = W_niveaulos
    /\ terminals[2].word = W_nicht
    /\ \E k, l, m \in TargetedFrames :
          /\ k < l /\ l < m
          /\ TerminalOf(k) = 1 /\ ~IsCueFrame(k)
          /\ TerminalOf(l) = 1 /\ IsCueFrame(l)
          /\ TerminalOf(m) = 2 /\ IsCueFrame(m)

----------------------------------------------------------------------------
(* Properties of the scoring *)

\* the Negation frames of the gold and of the predicted sentence k
GoldFrames(k) == SelectSeq(sentences_gold[k].frames, LAMBDA f : f.name = NEGATION_FRAME_NAME)
TestFrames(k) == SelectSeq(sentences_test[k].frames, LAMBDA f : f.name = NEGATION_FRAME_NAME)
FewerFrames(k) ==
    IF Len(GoldFrames(k)) <= Len(TestFrames(k)) THEN Len(GoldFrames(k)) ELSE Len(TestFrames(k))

\* the number of frame pairs of the sentences before sentence k
RECURSIVE PairsBefore(_)
PairsBefore(k) == IF k <= 1 THEN 0 ELSE PairsBefore(k - 1) + FewerFrames(k - 1)
\* the number of frame pairs scored so far
PairsScored == IF s_idx = 0 THEN 0 ELSE PairsBefore(s_idx) + f_idx

\* the lowercased word a Target refers to
TargetWord(s, fr) == << Lower(s.nodes[fr.target.nodes[1]].word) >>

\* C24: in each sentence pair the i-th gold Negation frame is scored
\* against the i-th predicted one; the sentence is left after the first
\* min(#gold, #predicted) pairs, nothing else changes a sum, and the pairs
\* scored never outnumber the gold frames counted for the averages.
C24_PositionalPairing ==
    [][ /\ scores' # scores => (s_idx' = s_idx /\ f_idx' = f_idx + 1)
        /\ (s_idx' = s_idx /\ f_idx' # f_idx) =>
              /\ f_idx' = f_idx + 1
              /\ f_idx' <= FewerFrames(s_idx)
              /\ lists'.target_gold = TargetWord(sentences_gold[s_idx], GoldFrames(s_idx)[f_idx'])
              /\ lists'.target_test = TargetWord(sentences_test[s_idx], TestFrames(s_idx)[f_idx'])
        /\ (s_idx > 0 /\ (s_idx' # s_idx \/ (Reported' /\ ~Reported))) =>
              f_idx = FewerFrames(s_idx)
        /\ PairsScored' <= counts'.gold_frames_count ]_vars
\* C24 witness: a gold sentence with two Negation frames against a
\* predicted sentence with one: one pair is scored, two gold frames are
\* counted, and the report is reached
C24_Witness ==
    /\ epc = "done"
    /\ s_idx = 1 /\ f_idx = 1
    /\ Len(GoldFrames(1)) = 2 /\ Len(TestFrames(1)) = 1
    /\ PairsScored = 1
    /\ counts.gold_frames_count = 2

\* the one word a role of a frame contributes: the lowercased word its first
\* reference leads to, the empty word when there is none
OneWord(s, fe) ==
    IF /\ fe.fe /\ fe.nodes # <<>>
       /\ fe.nodes[1] \in DOMAIN s.nodes
       /\ s.nodes[fe.nodes[1]].hasword
    THEN Lower(s.nodes[fe.nodes[1]].word)
    ELSE <<>>
\* the F1 of a pair of words: the gold bit is 1 iff the gold word is not
\* empty, the predicted bit is 1 iff the predicted word is the gold word
WordF1(gold_word, test_word) ==
    f1_score(<<IF gold_word # <<>> THEN 1 ELSE 0>>,
             <<IF test_word = gold_word THEN 1 ELSE 0>>)

\* C25: for Target, Focus and Negated each side of a scored frame pair
\* contributes exactly one lowercased word, the empty word if the role is
\* absent; the gold bit is 1 iff the gold word is non-empty and the
\* predicted bit is 1 iff the predicted word is in the one-word gold list.
C25_OneWordPerRole ==
    PairScored =>
        LET s_gold == sentences_gold[s_idx]
            s_test == sentences_test[s_idx]
        IN  /\ lists.target_gold = <<OneWord(s_gold, ScoredGold.target)>>
            /\ lists.target_test = <<OneWord(s_test, ScoredTest.target)>>
            /\ lists.focus_gold = <<OneWord(s_gold, ScoredGold.focus)>>
            /\ lists.focus_test = <<OneWord(s_test, ScoredTest.focus)>>
            /\ lists.negated_gold = <<OneWord(s_gold, ScoredGold.negated)>>
            /\ lists.negated_test = <<OneWord(s_test, ScoredTest.negated)>>
            /\ lists.pair.target_f1 = WordF1(lists.target_gold[1], lists.target_test[1])
            /\ lists.pair.focus_f1 = WordF1(lists.focus_gold[1], lists.focus_test[1])
            /\ lists.pair.negated_f1 = WordF1(lists.negated_gold[1], lists.negated_test[1])

\* C26: for Scope, after padding, a position of the gold vector is 1 iff
\* its element is non-empty, and a position of the predicted vector is 1 iff
\* its element is a non-empty word of the gold Scope list; a predicted
\* word that is not in the gold Scope gives 0.
C26_ScopeBits ==
    PairScored =>
        /\ DOMAIN lists.scope_gold_normalized = DOMAIN lists.scope_gold
        /\ DOMAIN lists.scope_test_normalized = DOMAIN lists.scope_test
        /\ \A k \in DOMAIN lists.scope_gold :
              lists.scope_gold_normalized[k] = IF lists.scope_gold[k] # <<>> THEN 1 ELSE 0
        /\ \A k \in DOMAIN lists.scope_test :
              lists.scope_test_normalized[k] =
                  IF /\ lists.scope_test[k] # <<>>
                     /\ lists.scope_test[k] \in SeqElems(lists.scope_gold)
                  THEN 1 ELSE 0

\* C27: the flattened Scope word list of the predicted side is a function of
\* the predicted sentence alone: the lowercased words of the terminals that
\* its Scope references dominate in the predicted sentence's graph, whatever
\* the gold sentence's graph is.
C27_TestScopeFromTestGraph ==
    (PairScored /\ ScoredTest.scope.fe) =>
        RawScope.test =
            Sorted(DominatedBy(sentences_test[s_idx], ScoredTest.scope.nodes, TRUE))

\* C28: the Scope scores of a frame pair are a function of the two inputs:
\* when the two Scope lists have equal length and the predicted one is
\* replaced by the words in common, the precision, recall, F1 and Jaccard
\* of the pair are the ones obtained with these words in sorted order,
\* whatever order the set is gone through in.
C28_OrderIndependent ==
    PairScored =>
        LET raw == RawScope
            common == Elems(raw.gold) \cap Elems(raw.test)
        IN  (Len(raw.gold) = Len(raw.test) /\ Cardinality(common) < Len(raw.test)) =>
                LET test == Pad(Sorted(CHOOSE p \in Orders(common) : TRUE), Len(raw.test))
                    y_true == GoldNormalized(raw.gold)
                    y_pred == ScopeTestNormalized(raw.gold, test)
                IN  /\ lists.pair.scope_precision = precision_score(y_true, y_pred)
                    /\ lists.pair.scope_recall = recall_score(y_true, y_pred)
                    /\ lists.pair.scope_f1 = f1_score(y_true, y_pred)
                    /\ lists.pair.scope_jaccard = jaccard_similarity_score(raw.gold, test)

----------------------------------------------------------------------------
(* NegationDetection.evaluate of main.py: the normalization and the        *)
(* binarization of a frame pair                                            *)

\* main.py lines 1556-1567: the predicted Scope list afterwards; lists of
\* equal length are left as they are
main_ScopeTestOutcome(sorted_scope_gold_list, sorted_scope_test_list) ==
    Pad(sorted_scope_test_list, Len(sorted_scope_gold_list))

\* main.py lines 1578, 1581, 1584, 1587: the gold vector, [1 for element in
\* gold_list]
main_GoldNormalized(gold_list) == [k \in DOMAIN gold_list |-> 1]

\* C29: the evaluator of main.py and the one of modules/evaluation.py build
\* the same binarized vectors for every role of every frame pair, and
\* divide the Scope sums by the same frame count.
C29_EvaluatorsAgree ==
    PairScored =>
        LET raw == RawScope
            main_gold == ScopeGoldOutcome(raw.gold, raw.test)
            main_test == main_ScopeTestOutcome(raw.gold, raw.test)
        IN  /\ GoldNormalized(lists.target_gold) = main_GoldNormalized(lists.target_gold)
            /\ GoldNormalized(lists.focus_gold) = main_GoldNormalized(lists.focus_gold)
            /\ GoldNormalized(lists.negated_gold) = main_GoldNormalized(lists.negated_gold)
            /\ lists.scope_gold_normalized = main_GoldNormalized(main_gold)
            /\ lists.scope_test_normalized = TestNormalized(main_gold, main_test)
            /\ counts.scope_test_frames_count = counts.scope_gold_frames_count

----------------------------------------------------------------------------
(* Number of Frames per terminal *)

\* C30: one terminal creates at most three Frames: the call of the
\* splitword rules adds at most two, the call of the whole-word rules at
\* most one, and no terminal is the Target of more than three Frames, of
\* which at most one is a whole-word Frame.
C30_AtMostThreeFrames ==
    [][ /\ pc = "splitwords" => Len(frames') <= Len(frames) + 2
        /\ pc = "cuewords" => Len(frames') <= Len(frames) + 1
        /\ \A i \in 1..Len(terminals) :
              /\ Cardinality({k \in NegationFrames(frames') :
                                /\ frames'[k].target.nodes # <<>>
                                /\ frames'[k].target.nodes[1][1] = i}) <= 3
              /\ Cardinality({k \in NegationFrames(frames') :
                                frames'[k].target.nodes = <<TRef(i)>>}) <= 1 ]_vars
\* C30 witness: 'niveaulos', in the cue list, has been gone through and is
\* the Target of a splitword Frame and of a whole-word Frame
C30_Witness ==
    /\ pc = "splitwords" /\ t_idx = 2
    /\ terminals[1].word = W_niveaulos
    /\ InList(1)
    /\ Cardinality({k \in TargetedFrames : TerminalOf(k) = 1}) = 2
    /\ Cardinality({k \in TargetedFrames : TerminalOf(k) = 1 /\ IsCueFrame(k)}) = 1

====
